---- MODULE Spec2Model ----
(***************************************************************************)
(* Age statistics plugin: input files -> extracted ages -> min/max/average *)
(* -> result envelope.  The model follows the Python sources under         *)
(* src/algorithm/src: the statistics calculator, the two extractors, the   *)
(* file reader, the request wrapper and the three orchestration variants   *)
(* (AgeAlgorithm.run, CalculateAgeStatisticsAction.execute and             *)
(* AgeAverageAlgorithm.run) with the validate -> run -> save lifecycle of  *)
(* their base classes.                                                     *)
(***************************************************************************)
EXTENDS Integers, Sequences, FiniteSets, TLC

(***************************************************************************)
(* Bounds of the model.                                                    *)
(***************************************************************************)
\* longest list of candidate values handed to the calculator or held by a document
MaxLen == 3
\* largest number of input files the host provides in one run
MaxFiles == 2
\* largest number of calls made on one repository
MaxCalls == 3
\* largest number of input files batch_iter is run on
MaxInputs == 3

\* upper end of the valid age range (age_statistics_calculator.py:46)
MaxAge == 150

(***************************************************************************)
(* Python values.  A value carries its Python type: json.loads yields int, *)
(* bool, float, str or None for a JSON scalar.  v is the numeric value of  *)
(* an int or a bool (True = 1, False = 0), and a label otherwise.          *)
(***************************************************************************)
IntVal(n) == [t |-> "int", v |-> n]
BoolVal(b) == [t |-> "bool", v |-> IF b THEN 1 ELSE 0]
FloatVal(n) == [t |-> "float", v |-> n]
StrVal(n) == [t |-> "str", v |-> n]
NoneVal == [t |-> "NoneType", v |-> 0]

\* the integers the model draws candidate ages from: both ends of the valid
\* range, the first values outside it, and values with a non-integer mean
IntSamples == {-1, 0, 1, 2, MaxAge, MaxAge + 1}

\* the candidate values of the model: ints, True, a float (30.0), a numeric
\* string ("30") and None
Vals ==
    {IntVal(n) : n \in IntSamples}
        \cup {BoolVal(TRUE), FloatVal(30), StrVal(30), NoneVal}

\* isinstance(x, int): bool is a subclass of int, so True and False pass
IsInstanceInt(x) == x.t \in {"int", "bool"}

\* all sequences over S of length 0..n
SeqUpTo(S, n) == UNION {[1..k -> S] : k \in 0..n}

(***************************************************************************)
(* Exceptions.  kind is the name of the exception class; text, value and   *)
(* source are what the message is formatted from.  pkg is the package the  *)
(* raising module imported the class from: the orchestration, the request  *)
(* and the file reader import shared.domain.exceptions, the services       *)
(* import src.shared.domain.exceptions.  Python loads the two as different *)
(* modules, so a class of one is no subclass of its namesake in the other  *)
(* and an except clause naming one does not catch the other.               *)
(***************************************************************************)
Kinds ==
    {"ValidationError", "ParsingError", "CalculationError", "FileOperationError", "Exception"}

\* an exception of a class imported from shared.domain.exceptions (or, for
\* kind "Exception", a builtin one)
Err(kind, text, value, source) ==
    [kind |-> kind, text |-> text, value |-> value, source |-> source,
     pkg |-> IF kind = "Exception" THEN "builtins" ELSE "shared"]

\* an exception of a class imported from src.shared.domain.exceptions
SrcErr(kind, text, value, source) ==
    [kind |-> kind, text |-> text, value |-> value, source |-> source,
     pkg |-> "src.shared"]

NoErr == Err("none", "", NoneVal, "")

(***************************************************************************)
(* AgeStatisticsCalculator.calculate                                       *)
(***************************************************************************)
RECURSIVE Gcd(_, _)
Gcd(a, b) == IF b = 0 THEN a ELSE Gcd(b, a % b)

\* Ratio with floor division (n // d) in place of true division
RatioFloor(n, d) == [num |-> n \div d, den |-> 1]

\* the quotient n / d of true division, kept exact as a reduced fraction
Ratio(n, d) ==
    LET g == Gcd(n, d) IN [num |-> n \div g, den |-> d \div g]

Zero == Ratio(0, 1)

\* min(ages): the first smallest element
RECURSIVE PyMin(_)
PyMin(s) ==
    IF Len(s) = 1 THEN s[1]
    ELSE LET m == PyMin(SubSeq(s, 1, Len(s) - 1))
         IN IF s[Len(s)].v < m.v THEN s[Len(s)] ELSE m

\* PyMax without the scan: the first element
PyMaxFirst(s) == s[1]

\* max(ages): the first largest element
RECURSIVE PyMax(_)
PyMax(s) ==
    IF Len(s) = 1 THEN s[1]
    ELSE LET m == PyMax(SubSeq(s, 1, Len(s) - 1))
         IN IF s[Len(s)].v > m.v THEN s[Len(s)] ELSE m

\* sum(ages)
RECURSIVE PySum(_)
PySum(s) == IF s = <<>> THEN 0 ELSE s[1].v + PySum(Tail(s))

AgeStatistics(mn, mx, avg, n) ==
    [min_age |-> mn, max_age |-> mx, avg_age |-> avg, count |-> n]

NoStats == AgeStatistics(NoneVal, NoneVal, Zero, 0)

Raise(e) == [ok |-> FALSE, err |-> e, stats |-> NoStats]

\* CheckAges without the upper end of the range
RECURSIVE CheckAgesNoUpper(_)
CheckAgesNoUpper(s) ==
    IF s = <<>> THEN NoErr
    ELSE IF ~IsInstanceInt(s[1])
         THEN SrcErr("ValidationError", "All ages must be integers, got", s[1], "")
    ELSE IF s[1].v < 0
         THEN SrcErr("ValidationError", "is outside valid range (0-150)", s[1], "")
    ELSE CheckAgesNoUpper(Tail(s))

\* the "for age in ages" validation loop: the first element that fails raises
RECURSIVE CheckAges(_)
CheckAges(s) ==
    IF s = <<>> THEN NoErr
    ELSE IF ~IsInstanceInt(s[1])
         THEN SrcErr("ValidationError", "All ages must be integers, got", s[1], "")
    ELSE IF s[1].v < 0 \/ s[1].v > MaxAge
         THEN SrcErr("ValidationError", "is outside valid range (0-150)", s[1], "")
    ELSE CheckAges(Tail(s))

\* the argument of calculate: None, some object that is no list, or a list
NoneArg == [t |-> "NoneType", items |-> <<>>]
NotListArg == [t |-> "tuple", items |-> <<>>]
ListArg(s) == [t |-> "list", items |-> s]

\* the try block of calculate: the logger call inside it may fail, and any
\* failure there is wrapped as CalculationError
Reduce(s, logFails) ==
    IF logFails
    THEN Raise(SrcErr("CalculationError", "Failed to calculate age statistics", NoneVal, ""))
    ELSE [ok |-> TRUE, err |-> NoErr,
          stats |-> AgeStatistics(PyMin(s), PyMax(s), Ratio(PySum(s), Len(s)), Len(s))]

\* calculate with the empty-list check dropped: zero statistics for no ages
calculateZeroOnEmpty(ages, logFails) ==
    IF ages.t = "NoneType"
    THEN Raise(SrcErr("ValidationError", "Ages list cannot be None", NoneVal, ""))
    ELSE IF ages.t # "list"
    THEN Raise(SrcErr("ValidationError", "Ages must be provided as a list", NoneVal, ""))
    ELSE IF ages.items = <<>>
    THEN [ok |-> TRUE, err |-> NoErr, stats |-> AgeStatistics(IntVal(0), IntVal(0), Zero, 0)]
    ELSE IF CheckAges(ages.items).kind # "none"
    THEN Raise(CheckAges(ages.items))
    ELSE Reduce(ages.items, logFails)

calculate(ages, logFails) ==
    IF ages.t = "NoneType"
    THEN Raise(SrcErr("ValidationError", "Ages list cannot be None", NoneVal, ""))
    ELSE IF ages.t # "list"
    THEN Raise(SrcErr("ValidationError", "Ages must be provided as a list", NoneVal, ""))
    ELSE IF ages.items = <<>>
    THEN Raise(SrcErr("ValidationError", "Cannot calculate statistics for empty ages list",
                   NoneVal, ""))
    ELSE IF CheckAges(ages.items).kind # "none"
    THEN Raise(CheckAges(ages.items))
    ELSE Reduce(ages.items, logFails)

(***************************************************************************)
(* Input text and parsed JSON.  A text is empty, whitespace only, not      *)
(* well-formed JSON, or well-formed JSON; json.loads turns the last into a *)
(* document: a list of items, a dict (with or without an "ages" key) or a  *)
(* scalar.  An item of a list is a dict (with or without an "age" key) or  *)
(* something else.                                                         *)
(***************************************************************************)
\* {"user_id": 1, "age": x}, {"user_id": 1, "name": ...} without "age", and
\* an array element that is no object
ObjAge(x) ==
    [t |-> "dict", has_age |-> TRUE, age |-> x, has_user_id |-> TRUE, user_id |-> IntVal(1)]
ObjNoAge ==
    [t |-> "dict", has_age |-> FALSE, age |-> NoneVal,
     has_user_id |-> TRUE, user_id |-> IntVal(1)]
NotObj(x) ==
    [t |-> x.t, has_age |-> FALSE, age |-> x, has_user_id |-> FALSE, user_id |-> NoneVal]

Items == {ObjAge(x) : x \in Vals} \cup {ObjNoAge, NotObj(IntVal(1)), NotObj(StrVal(30))}

\* the value under "ages": a list of values, or a str / dict (iterating them
\* yields strs), or a value that cannot be iterated
AgesList(s) == [t |-> "list", items |-> s]
AgesStr(s) == [t |-> "str", items |-> s]
AgesDict(s) == [t |-> "dict", items |-> s]
AgesInt == [t |-> "int", items |-> <<>>]
AgesNone == [t |-> "NoneType", items |-> <<>>]

AgesFields ==
    {AgesList(s) : s \in SeqUpTo(Vals, MaxLen)}
        \cup {AgesStr(<<>>), AgesStr(<<StrVal(3), StrVal(0)>>), AgesDict(<<>>),
              AgesDict(<<StrVal(1)>>), AgesInt, AgesNone}

ListDoc(s) == [t |-> "list", items |-> s, has_ages |-> FALSE, ages |-> AgesNone]
DictDoc(f) == [t |-> "dict", items |-> <<>>, has_ages |-> TRUE, ages |-> f]
DictNoAges == [t |-> "dict", items |-> <<>>, has_ages |-> FALSE, ages |-> AgesNone]
ScalarDoc(x) == [t |-> x.t, items |-> <<>>, has_ages |-> FALSE, ages |-> AgesNone]

Docs ==
    {ListDoc(s) : s \in SeqUpTo(Items, MaxLen)}
        \cup {DictDoc(f) : f \in AgesFields}
        \cup {DictNoAges, ScalarDoc(IntVal(1)), ScalarDoc(StrVal(30)), ScalarDoc(NoneVal)}

EmptyText == [kind |-> "empty", doc |-> ScalarDoc(NoneVal)]
SpaceText == [kind |-> "space", doc |-> ScalarDoc(NoneVal)]
MalformedText == [kind |-> "malformed", doc |-> ScalarDoc(NoneVal)]
JsonText(d) == [kind |-> "json", doc |-> d]

Texts == {EmptyText, SpaceText, MalformedText} \cup {JsonText(d) : d \in Docs}

\* the file names used in messages
Sources == {"a.json", "b.json"}

\* "not text or not text.strip()"
IsBlank(text) == text.kind \in {"empty", "space"}

\* json.loads: the document, or JSONDecodeError for anything that is not
\* well-formed JSON (blank text included)
JsonLoads(text) == [ok |-> text.kind = "json", doc |-> text.doc]

Fail(e) == [ok |-> FALSE, err |-> e, ages |-> <<>>]
Ages(s) == [ok |-> TRUE, err |-> NoErr, ages |-> s]

\* "not isinstance(age, int) or age < 0"
InvalidAge(x) == ~IsInstanceInt(x) \/ x.v < 0

\* the loop over the elements of the "ages" value: append until one fails
RECURSIVE CollectAges(_, _, _)
CollectAges(s, acc, source) ==
    IF s = <<>> THEN Ages(acc)
    ELSE IF InvalidAge(s[1])
         THEN Fail(SrcErr("ValidationError", "Invalid age value", s[1], source))
         ELSE CollectAges(Tail(s), Append(acc, s[1]), source)

(***************************************************************************)
(* InputParser.extract_ages                                                *)
(***************************************************************************)
\* ParserCollectItems with a missing "age" key treated as an error
RECURSIVE ParserCollectItemsNoSkip(_, _, _)
ParserCollectItemsNoSkip(s, acc, source) ==
    IF s = <<>> THEN Ages(acc)
    ELSE IF s[1].t = "dict" /\ s[1].has_age /\ ~InvalidAge(s[1].age)
         THEN ParserCollectItemsNoSkip(Tail(s), Append(acc, s[1].age), source)
         ELSE Fail(SrcErr("ValidationError", "Invalid age value", s[1].age, source))

\* the loop over the array: dicts with "age" are checked and appended,
\* everything else is passed over
RECURSIVE ParserCollectItems(_, _, _)
ParserCollectItems(s, acc, source) ==
    IF s = <<>> THEN Ages(acc)
    ELSE IF s[1].t = "dict" /\ s[1].has_age
         THEN IF InvalidAge(s[1].age)
              THEN Fail(SrcErr("ValidationError", "Invalid age value", s[1].age, source))
              ELSE ParserCollectItems(Tail(s), Append(acc, s[1].age), source)
         ELSE ParserCollectItems(Tail(s), acc, source)

\* the branch on the type of the parsed data
ParserCollect(data, source) ==
    IF data.t = "list" THEN ParserCollectItems(data.items, <<>>, source)
    ELSE IF data.t = "dict"
         THEN IF data.has_ages
              THEN IF data.ages.t \in {"list", "str", "dict"}
                   THEN CollectAges(data.ages.items, <<>>, source)
                   \* iterating it raises TypeError, caught below the try
                   ELSE Fail(SrcErr("ValidationError", "Invalid data structure in",
                                 NoneVal, source))
              ELSE Fail(SrcErr("ValidationError", "No 'ages' field found in data from",
                            NoneVal, source))
    ELSE Fail(SrcErr("ValidationError", "Unsupported data format in", NoneVal, source))

\* NonEmpty without the check: an empty list is returned as it is
NonEmptyNoCheck(r, source) == r

\* "if not ages: raise ValidationError(No valid ages found)"
NonEmpty(r, source) ==
    IF r.ok /\ r.ages = <<>>
    THEN Fail(SrcErr("ValidationError", "No valid ages found in", NoneVal, source))
    ELSE r

\* extract_ages without the blank-text check
InputParserNoBlankCheck(text, source) ==
    IF ~JsonLoads(text).ok
    THEN Fail(SrcErr("ParsingError", "Could not parse JSON from", NoneVal, source))
    ELSE NonEmpty(ParserCollect(JsonLoads(text).doc, source), source)

InputParser_extract_ages(text, source) ==
    IF IsBlank(text)
    THEN Fail(SrcErr("ValidationError", "Empty or invalid input text from", NoneVal, source))
    ELSE IF ~JsonLoads(text).ok
    THEN Fail(SrcErr("ParsingError", "Could not parse JSON from", NoneVal, source))
    ELSE NonEmpty(ParserCollect(JsonLoads(text).doc, source), source)

(***************************************************************************)
(* AgeExtractor.extract_ages (works on parsed data)                        *)
(***************************************************************************)
is_array_of_objects(data) ==
    data.t = "list" /\ Len(data.items) > 0 /\ data.items[1].t = "dict"

is_object_with_ages_field(data) == data.t = "dict" /\ data.has_ages

RECURSIVE ExtractorCollectItems(_, _, _)
ExtractorCollectItems(s, acc, source) ==
    IF s = <<>> THEN Ages(acc)
    ELSE IF s[1].t # "dict"
         THEN Fail(SrcErr("ValidationError", "Expected object in array, got", s[1].age, source))
    ELSE IF s[1].has_age
         THEN IF InvalidAge(s[1].age)
              THEN Fail(SrcErr("ValidationError", "Invalid age value", s[1].age, source))
              ELSE ExtractorCollectItems(Tail(s), Append(acc, s[1].age), source)
    ELSE ExtractorCollectItems(Tail(s), acc, source)

extract_from_array_of_objects(data, source) ==
    NonEmpty(ExtractorCollectItems(data.items, <<>>, source), source)

extract_from_object_with_ages_field(data, source) ==
    IF data.ages.t # "list"
    THEN Fail(SrcErr("ValidationError", "'ages' field must be an array in", NoneVal, source))
    ELSE NonEmpty(CollectAges(data.ages.items, <<>>, source), source)

AgeExtractor_extract_ages(data, source) ==
    IF is_array_of_objects(data) THEN extract_from_array_of_objects(data, source)
    ELSE IF is_object_with_ages_field(data)
         THEN extract_from_object_with_ages_field(data, source)
    ELSE Fail(SrcErr("ValidationError", "Unsupported data format in", NoneVal, source))

(***************************************************************************)
(* Input files and FileReader.read_text.  The host provides the files in   *)
(* order; a path may not exist, may be unreadable, or holds a text.        *)
(***************************************************************************)
MissingFile == [kind |-> "missing", text |-> EmptyText]
UnreadableFile == [kind |-> "unreadable", text |-> EmptyText]
DirectoryFile == [kind |-> "directory", text |-> EmptyText]
TextFile(text) == [kind |-> "file", text |-> text]

\* path.name of the i-th input
FileName(i) == <<"a.json", "b.json", "c.json", "d.json">>[i]

ReadFail(e) == [ok |-> FALSE, err |-> e, text |-> EmptyText]

\* read_text with every failure of the try block wrapped, the empty file
\* included
read_textWrapAll(file, name) ==
    IF file.kind = "missing"
    THEN ReadFail(Err("FileOperationError", "File does not exist:", NoneVal, name))
    ELSE IF file.kind = "directory"
    THEN ReadFail(Err("FileOperationError", "Path is not a file:", NoneVal, name))
    ELSE IF file.kind = "unreadable" \/ IsBlank(file.text)
    THEN ReadFail(Err("FileOperationError", "Error reading file", NoneVal, name))
    ELSE [ok |-> TRUE, err |-> NoErr, text |-> file.text]

\* FileReader.read_text: a path that does not exist or is a directory, a
\* file that cannot be read ("unreadable"), an empty or blank file, a text
read_text(file, name) ==
    IF file.kind = "missing"
    THEN ReadFail(Err("FileOperationError", "File does not exist:", NoneVal, name))
    ELSE IF file.kind = "directory"
    THEN ReadFail(Err("FileOperationError", "Path is not a file:", NoneVal, name))
    ELSE IF file.kind = "unreadable"
    THEN ReadFail(Err("FileOperationError", "Error reading file", NoneVal, name))
    ELSE IF IsBlank(file.text)
    THEN ReadFail(Err("ValidationError", "File is empty:", NoneVal, name))
    ELSE [ok |-> TRUE, err |-> NoErr, text |-> file.text]

\* the texts the orchestration is run on
RunTexts ==
    {SpaceText, MalformedText,
     JsonText(ListDoc(<<ObjAge(IntVal(1))>>)),
     JsonText(ListDoc(<<ObjAge(IntVal(2)), ObjAge(IntVal(0))>>)),
     JsonText(ListDoc(<<ObjAge(IntVal(2)), ObjNoAge, ObjAge(IntVal(MaxAge))>>)),
     JsonText(ListDoc(<<ObjAge(IntVal(-1))>>)),
     JsonText(ListDoc(<<ObjNoAge>>)),
     JsonText(DictDoc(AgesList(<<IntVal(0), IntVal(1)>>))),
     JsonText(DictDoc(AgesList(<<IntVal(MaxAge + 1)>>))),
     JsonText(DictDoc(AgesList(<<BoolVal(TRUE)>>))),
     JsonText(DictDoc(AgesList(<<>>)))}

RunFiles == {MissingFile, UnreadableFile} \cup {TextFile(t) : t \in RunTexts}

(***************************************************************************)
(* Result envelope (AgeResults / AgeResponseDTO).  The message is the      *)
(* context string followed by the error it was built from.  The int fields *)
(* hold the number of the value they are given.                            *)
(***************************************************************************)
Message(context, e) == [context |-> context, err |-> e]

AgeResults(status, message, mn, mx, avg) ==
    [status |-> status, message |-> message,
     min_age |-> mn.v, max_age |-> mx.v, avg_age |-> avg]

NoEnvelope == AgeResults("none", Message("", NoErr), NoneVal, NoneVal, Zero)

Success(stats) ==
    AgeResults("success", Message("Algorithm executed successfully", NoErr),
               stats.min_age, stats.max_age, stats.avg_age)

\* an error envelope that marks the missing statistics with -1
handle_errorSentinel(e, context) ==
    AgeResults("error", Message(context, e), IntVal(-1), IntVal(-1), Zero)

\* AgeAlgorithm._handle_error
handle_error(e, context) ==
    AgeResults("error", Message(context, e), IntVal(0), IntVal(0), Zero)

(***************************************************************************)
(* The body of the try block shared by AgeAlgorithm.run and                *)
(* CalculateAgeStatisticsAction.execute: read and extract every file in    *)
(* host order into one list, then calculate once.  The result records      *)
(* which files were read and what the calculator was called with.          *)
(***************************************************************************)
\* all_ages = ages, dropping what was collected before
ExtendReplace(all_ages, ages) == ages

\* all_ages.extend(ages)
Extend(all_ages, ages) == all_ages \o ages

Collected(e, ages, reads) == [err |-> e, ages |-> ages, reads |-> reads]

\* the loop "for idx, path in iter_files()": read, extract, extend; the
\* first failure ends it
RECURSIVE CollectFiles(_, _, _, _)
RECURSIVE ReadDone(_, _, _, _, _)
RECURSIVE ExtractDone(_, _, _, _, _)
CollectFiles(files, i, all_ages, reads) ==
    IF i > Len(files) THEN Collected(NoErr, all_ages, reads)
    ELSE ReadDone(files, i, all_ages, Append(reads, i), read_text(files[i], FileName(i)))

ReadDone(files, i, all_ages, reads, text) ==
    IF ~text.ok THEN Collected(text.err, <<>>, reads)
    ELSE ExtractDone(files, i, all_ages, reads,
                     InputParser_extract_ages(text.text, FileName(i)))

\* the loop with a file whose extraction fails skipped
ExtractDoneSkip(files, i, all_ages, reads, ages) ==
    CollectFiles(files, i + 1, IF ages.ok THEN Extend(all_ages, ages.ages) ELSE all_ages, reads)

ExtractDone(files, i, all_ages, reads, ages) ==
    IF ~ages.ok THEN Collected(ages.err, <<>>, reads)
    ELSE CollectFiles(files, i + 1, Extend(all_ages, ages.ages), reads)

Body(e, stats, reads, calls) == [err |-> e, stats |-> stats, reads |-> reads, calls |-> calls]

\* "stats = stats_calculator.calculate(all_ages)" and what follows it
Calculated(c, r) == Body(r.err, r.stats, c.reads, <<ListArg(c.ages)>>)

\* fault = "calc": the try block of calculate fails
AfterLoop(c, fault) ==
    IF c.err.kind # "none" THEN Body(c.err, NoStats, c.reads, <<>>)
    ELSE Calculated(c, calculate(ListArg(c.ages), fault = "calc"))

\* fault = "inputs": job_details.inputs() of the host raises when iterated
TryBody(files, fault) ==
    IF fault = "inputs"
    THEN Body(Err("Exception", "inputs unavailable", NoneVal, ""), NoStats, <<>>, <<>>)
    ELSE AfterLoop(CollectFiles(files, 1, <<>>, <<>>), fault)

\* the except clauses of AgeAlgorithm.run without the final "except Exception"
RunHandlersNoCatchAll ==
    [ValidationError |-> "Validation failed",
     ParsingError |-> "Failed to parse input data",
     CalculationError |-> "Failed to calculate statistics",
     FileOperationError |-> "File operation failed"]

\* the except clauses of AgeAlgorithm.run, by exception class
RunHandlers ==
    [ValidationError |-> "Validation failed",
     ParsingError |-> "Failed to parse input data",
     CalculationError |-> "Failed to calculate statistics",
     FileOperationError |-> "File operation failed",
     Exception |-> "Unexpected error"]

\* the except clauses of CalculateAgeStatisticsAction.execute
ExecuteHandlers ==
    [ValidationError |-> "Validation failed",
     ParsingError |-> "Failed to parse input data",
     CalculationError |-> "Failed to calculate statistics",
     FileOperationError |-> "File operation failed",
     Exception |-> "Unexpected error"]

\* the clause an exception is caught by: the one naming its class (the
\* clauses name classes imported from shared.domain.exceptions), else the
\* catch-all
Clause(handlers, e) ==
    IF e.kind \in DOMAIN handlers /\ e.pkg = "shared" THEN e.kind
    ELSE IF "Exception" \in DOMAIN handlers THEN "Exception"
    ELSE "uncaught"

Outcome(env, raised, reads, calls) ==
    [env |-> env, raised |-> raised, reads |-> reads, calls |-> calls]

\* the success return and the except clauses of AgeAlgorithm.run
RunExcept(b) ==
    IF b.err.kind = "none" THEN Outcome(Success(b.stats), NoErr, b.reads, b.calls)
    ELSE IF Clause(RunHandlers, b.err) = "uncaught"
    THEN Outcome(NoEnvelope, b.err, b.reads, b.calls)
    ELSE Outcome(handle_error(b.err, RunHandlers[Clause(RunHandlers, b.err)]),
                 NoErr, b.reads, b.calls)

\* AgeAlgorithm.run
AgeAlgorithm_run(files, fault) == RunExcept(TryBody(files, fault))

\* the success return and the except clauses of execute
ExecuteExcept(b) ==
    IF b.err.kind = "none" THEN Outcome(Success(b.stats), NoErr, b.reads, b.calls)
    ELSE IF Clause(ExecuteHandlers, b.err) = "uncaught"
    THEN Outcome(NoEnvelope, b.err, b.reads, b.calls)
    ELSE Outcome(AgeResults("error",
                            Message(ExecuteHandlers[Clause(ExecuteHandlers, b.err)], b.err),
                            IntVal(0), IntVal(0), Zero),
                 NoErr, b.reads, b.calls)

\* the parser and the calculator the action imports
\* (age_average.application.input_parser, .age_statistics_calculator) behave
\* as the services do and raise the exception classes the action catches
application_services(b) ==
    Body(IF b.err.pkg = "src.shared" THEN [b.err EXCEPT !.pkg = "shared"] ELSE b.err,
         b.stats, b.reads, b.calls)

\* CalculateAgeStatisticsAction.execute
execute(files, fault) == ExecuteExcept(application_services(TryBody(files, fault)))

\* "result = self.calculate_action.execute()" under "except Exception"
ActionExcept(o) ==
    IF o.raised.kind = "none" THEN o
    ELSE Outcome(AgeResults("error", Message("Algorithm error", o.raised),
                            IntVal(0), IntVal(0), Zero),
                 NoErr, o.reads, o.calls)

\* AgeAverageAlgorithm.run: the stored validation error first, else the action
AgeAverageAlgorithm_run(files, fault, validation_error) ==
    IF validation_error.kind # "none"
    THEN Outcome(AgeResults("error", Message("Validation error", validation_error),
                            IntVal(0), IntVal(0), Zero),
                 NoErr, <<>>, <<>>)
    ELSE ActionExcept(execute(files, fault))

(***************************************************************************)
(* validate: the callback the host calls first.                            *)
(***************************************************************************)
\* Request.count(): len(list(job_details.inputs()))
count(files, fault) ==
    IF fault = "inputs"
    THEN [err |-> Err("Exception", "inputs unavailable", NoneVal, ""), n |-> 0]
    ELSE [err |-> NoErr, n |-> Len(files)]

\* validate_inputs without the check for zero input files
validate_inputsAllowEmpty(files, fault) == count(files, fault).err

\* Request.validate_inputs: what it raises (NoErr when it returns)
validate_inputs(files, fault) ==
    IF count(files, fault).err.kind # "none" THEN count(files, fault).err
    ELSE IF count(files, fault).n = 0
         THEN Err("ValidationError", "No input files provided", NoneVal, "")
    ELSE NoErr

Validated(raised, stored) == [raised |-> raised, stored |-> stored]

\* AgeAlgorithm.validate_input, reached through BaseAlgorithm.validate of
\* shared/domain: both except clauses re-raise
AgeAlgorithm_validate(files, fault) ==
    IF count(files, fault).err.kind # "none" THEN Validated(count(files, fault).err, NoErr)
    ELSE IF count(files, fault).n = 0
         THEN Validated(Err("ValidationError", "No input files provided", NoneVal, ""), NoErr)
    ELSE Validated(NoErr, NoErr)

\* Request.get_custom_parameters followed by params.get('age'): what the
\* try block of AgeAverageAlgorithm.validate_input raises
custom_age(customData) ==
    IF customData = "malformed"
    THEN Err("ParsingError", "Invalid JSON in custom data file", NoneVal, "")
    ELSE IF customData = "absent"
    THEN Err("ValidationError", "Missing required parameter: age", NoneVal, "")
    ELSE NoErr

\* validate_input with the failure logged and not stored
validate_inputNoStore(customData, stored) == stored

\* AgeAverageAlgorithm.validate_input: every failure is stored, none raised.
\* A call that succeeds leaves the stored error as it was.
AgeAverageAlgorithm_validate_input(customData, stored) ==
    IF custom_age(customData).kind # "none" THEN custom_age(customData) ELSE stored

\* validate with _validation_error reset to None before validate_input
AgeAverageAlgorithm_validateFresh(files, fault, customData, stored) ==
    IF validate_inputs(files, fault).kind # "none"
    THEN Validated(validate_inputs(files, fault), stored)
    ELSE Validated(NoErr, AgeAverageAlgorithm_validate_input(customData, NoErr))

\* BaseAlgorithm.validate of shared/infrastructure: Request.validate_inputs
\* outside any try, then validate_input
AgeAverageAlgorithm_validate(files, fault, customData, stored) ==
    IF validate_inputs(files, fault).kind # "none"
    THEN Validated(validate_inputs(files, fault), stored)
    ELSE Validated(NoErr, AgeAverageAlgorithm_validate_input(customData, stored))

(***************************************************************************)
(* Request.batch_iter: a generator.  Calling it runs no code; each next()  *)
(* runs it up to the next yield, to its end or to an exception.            *)
(***************************************************************************)
\* where a next() left the generator: "yielded" (suspended at a yield),
\* "done" (returned) or "raised"; the list it holds in "batch", what it
\* raised, and the indices of the files it has read
Gen(pc, batch, raised, reads) == [pc |-> pc, batch |-> batch, raised |-> raised, reads |-> reads]

\* the loop of batch_iter that yields a batch once it holds more than
\* batch_size items
RECURSIVE FillBatchLate(_, _, _, _)
FillBatchLate(files, n, batch, reads) ==
    IF Len(reads) = Len(files)
    THEN IF batch = <<>> THEN Gen("done", <<>>, NoErr, reads) ELSE Gen("yielded", batch, NoErr, reads)
    ELSE IF ~read_text(files[Len(reads) + 1], FileName(Len(reads) + 1)).ok
    THEN Gen("raised", batch,
             read_text(files[Len(reads) + 1], FileName(Len(reads) + 1)).err,
             Append(reads, Len(reads) + 1))
    ELSE IF Len(batch) + 1 > n
    THEN Gen("yielded", Append(batch, files[Len(reads) + 1].text), NoErr,
             Append(reads, Len(reads) + 1))
    ELSE FillBatchLate(files, n, Append(batch, files[Len(reads) + 1].text),
                       Append(reads, Len(reads) + 1))

\* the loop of batch_iter from the next unread file: read, append, yield
\* when the batch is full; after the last file yield what remains, if any
RECURSIVE FillBatch(_, _, _, _)
FillBatch(files, n, batch, reads) ==
    IF Len(reads) = Len(files)
    THEN IF batch = <<>> THEN Gen("done", <<>>, NoErr, reads) ELSE Gen("yielded", batch, NoErr, reads)
    ELSE IF ~read_text(files[Len(reads) + 1], FileName(Len(reads) + 1)).ok
    THEN Gen("raised", batch,
             read_text(files[Len(reads) + 1], FileName(Len(reads) + 1)).err,
             Append(reads, Len(reads) + 1))
    ELSE IF Len(batch) + 1 >= n
    THEN Gen("yielded", Append(batch, files[Len(reads) + 1].text), NoErr,
             Append(reads, Len(reads) + 1))
    ELSE FillBatch(files, n, Append(batch, files[Len(reads) + 1].text),
                   Append(reads, Len(reads) + 1))

\* the first next(): the check of batch_size, then job_details.inputs()
\* and the loop
batch_iter_start(files, fault, n) ==
    IF n <= 0
    THEN Gen("raised", <<>>, Err("ValidationError", "Batch size must be positive, got",
                                 IntVal(n), ""), <<>>)
    ELSE IF fault = "inputs"
    THEN Gen("raised", <<>>, Err("Exception", "inputs unavailable", NoneVal, ""), <<>>)
    ELSE FillBatch(files, n, <<>>, <<>>)

\* a later next(): "batch = []" after the yield, then the loop goes on
batch_iter_resume(files, n, reads) == FillBatch(files, n, <<>>, reads)

(***************************************************************************)
(* OceanInMemoryRepository: the entities of the first input file, loaded   *)
(* on the first read access.                                               *)
(***************************************************************************)
\* what loading raised (NoErr when it returned) and the entities it built
Loaded(e, entities) == [err |-> e, entities |-> entities]

\* an int field of a pydantic model given x: ints pass, True/False become
\* 1/0, a float without fraction and a numeric string are converted, None is
\* rejected (the strings of the model are numeric)
PydanticInt(x) ==
    [ok |-> x.t \in {"int", "bool", "float", "str"}, val |-> IntVal(x.v)]

\* a request object: the attributes it has and their values
Req(has_user_id, user_id, has_age, age) ==
    [has_user_id |-> has_user_id, user_id |-> user_id, has_age |-> has_age, age |-> age]

\* "for item in raw_data: dto_class(**item)" with the except clauses of the
\* inner try: an item that is no mapping raises TypeError, a missing or
\* unconvertible field raises pydantic's ValidationError
RECURSIVE BuildDtos(_, _)
BuildDtos(items, acc) ==
    IF items = <<>> THEN [err |-> NoErr, dtos |-> acc]
    ELSE IF items[1].t # "dict"
    THEN [err |-> Err("ValidationError", "Invalid AgeRequestDTO data structure",
                      items[1].age, ""),
          dtos |-> <<>>]
    ELSE IF \/ ~items[1].has_user_id
            \/ ~items[1].has_age
            \/ ~PydanticInt(items[1].user_id).ok
            \/ ~PydanticInt(items[1].age).ok
    THEN [err |-> Err("ValidationError", "Invalid AgeRequestDTO data", items[1].age, ""),
          dtos |-> <<>>]
    ELSE BuildDtos(Tail(items),
                   Append(acc, Req(TRUE, PydanticInt(items[1].user_id).val,
                                   TRUE, PydanticInt(items[1].age).val)))

\* the loop of map_to_entities: the first request that fails a check ends
\* the call with ValidationError
RECURSIVE MapRequests(_, _)
MapRequests(requests, acc) ==
    IF requests = <<>> THEN Loaded(NoErr, acc)
    ELSE IF ~requests[1].has_user_id \/ requests[1].user_id.t = "NoneType"
    THEN Loaded(Err("ValidationError", "missing required field 'user_id'", NoneVal, ""), <<>>)
    ELSE IF ~requests[1].has_age \/ requests[1].age.t = "NoneType"
    THEN Loaded(Err("ValidationError", "missing required field 'age'", NoneVal, ""), <<>>)
    ELSE IF ~IsInstanceInt(requests[1].user_id) \/ requests[1].user_id.v < 0
    THEN Loaded(Err("ValidationError", "'user_id' must be a non-negative integer, got",
                    requests[1].user_id, ""), <<>>)
    ELSE IF \/ ~IsInstanceInt(requests[1].age)
            \/ requests[1].age.v < 0
            \/ requests[1].age.v > MaxAge
    THEN Loaded(Err("ValidationError", "'age' must be an integer between 0 and 150, got",
                    requests[1].age, ""), <<>>)
    ELSE MapRequests(Tail(requests),
                     Append(acc, [user_id |-> requests[1].user_id.v,
                                  age |-> requests[1].age.v]))

\* UserAgeMapper.map_to_entities
map_to_entities(requests) ==
    IF requests.t = "NoneType"
    THEN Loaded(Err("ValidationError", "Requests list cannot be None", NoneVal, ""), <<>>)
    ELSE IF requests.t # "list"
    THEN Loaded(Err("ValidationError", "Requests must be a list, got", NoneVal, ""), <<>>)
    ELSE MapRequests(requests.items, <<>>)

\* "self._entities = self.mapper.map_to_entities(dto_requests)"
LoadDtos(d) ==
    IF d.err.kind # "none" THEN Loaded(d.err, <<>>) ELSE map_to_entities(ListArg(d.dtos))

\* json.loads(content) and the check that the data is a list
LoadData(j) ==
    IF ~j.ok THEN Loaded(Err("ParsingError", "Failed to parse input as JSON", NoneVal, ""), <<>>)
    ELSE IF j.doc.t # "list"
    THEN Loaded(Err("ParsingError", "Input data must be a JSON array of", NoneVal, ""), <<>>)
    ELSE LoadDtos(BuildDtos(j.doc.items, <<>>))

\* "content = self.request.get_content(0)": the first input file only
LoadContent(text) ==
    IF ~text.ok THEN Loaded(text.err, <<>>) ELSE LoadData(JsonLoads(text.text))

\* Request.get_content(index), index counted from 1 here
get_content(files, index) ==
    IF index < 1 \/ index > Len(files)
    THEN ReadFail(Err("ValidationError", "Index out of range", NoneVal, ""))
    ELSE read_text(files[index], FileName(index))

\* the try block of get_entities_from_input
LoadBody(files, fault) ==
    IF validate_inputs(files, fault).kind # "none"
    THEN Loaded(validate_inputs(files, fault), <<>>)
    ELSE LoadContent(get_content(files, 1))

\* the except clauses of get_entities_from_input with every exception
\* raised again as it is
LoadExceptNoWrap(r) == r

\* the outer except clauses: the three domain errors are raised again,
\* anything else is raised as FileOperationError
LoadExcept(r) ==
    IF \/ r.err.kind = "none"
       \/ /\ r.err.kind \in {"ValidationError", "ParsingError", "FileOperationError"}
          /\ r.err.pkg = "shared"
    THEN r
    ELSE Loaded(Err("FileOperationError", "Unexpected error reading input files",
                    NoneVal, ""), <<>>)

\* OceanInMemoryRepository.get_entities_from_input
get_entities_from_input(files, fault) == LoadExcept(LoadBody(files, fault))

\* what a call returned (NoRet: nothing, or the call raised)
Ret(t, items, v) == [t |-> t, items |-> items, v |-> v]
NoRet == Ret("none", <<>>, 0)

\* raised by save and delete
NotImplemented ==
    [kind |-> "NotImplementedError", text |-> "Ocean Protocol repositories are READ-ONLY",
     value |-> NoneVal, source |-> "", pkg |-> "builtins"]

\* a call on the repository: _entities and _loaded after it, what it raised,
\* what it returned, and whether it called validate_inputs and get_content
RepoCall(entities, loaded, raised, ret, checked, read) ==
    [entities |-> entities, loaded |-> loaded, raised |-> raised, ret |-> ret,
     checked |-> checked, read |-> read]

\* the assignments of get_entities_from_input that append the mapped
\* entities to the stored ones
StoreAppend(entities, r, read) ==
    IF r.err.kind = "none"
    THEN RepoCall(entities \o r.entities, TRUE, NoErr, NoRet, TRUE, read)
    ELSE RepoCall(entities, FALSE, r.err, NoRet, TRUE, read)

\* the assignments of get_entities_from_input: "self._entities = ..." and
\* "self._loaded = True" when loading returned, "self._loaded = False" in
\* the except clauses
Store(entities, r, read) ==
    IF r.err.kind = "none"
    THEN RepoCall(r.entities, TRUE, NoErr, NoRet, TRUE, read)
    ELSE RepoCall(entities, FALSE, r.err, NoRet, TRUE, read)

\* get_entities_from_input on a repository: get_content is called when
\* validate_inputs returned
Repository_load(entities, files, fault) ==
    Store(entities, get_entities_from_input(files, fault),
          validate_inputs(files, fault).kind = "none")

\* _ensure_loaded without the test of the flag
ensure_loadedAlways(entities, loaded, files, fault) ==
    Repository_load(entities, files, fault)

\* OceanInMemoryRepository._ensure_loaded
ensure_loaded(entities, loaded, files, fault) ==
    IF ~loaded THEN Repository_load(entities, files, fault)
    ELSE RepoCall(entities, loaded, NoErr, NoRet, FALSE, FALSE)

\* the return statement of a read access, reached when _ensure_loaded
\* returned
Returning(c, ret) ==
    IF c.raised.kind # "none" THEN c
    ELSE RepoCall(c.entities, c.loaded, NoErr, ret, c.checked, c.read)

\* find_all returns the stored list, count its length, find_by_id None and
\* exists_by_id False
ReadRet(op, c) ==
    CASE op = "find_all" -> Ret("list", c.entities, 0)
      [] op = "count" -> Ret("int", <<>>, Len(c.entities))
      [] op = "find_by_id" -> Ret("NoneType", <<>>, 0)
      [] op = "exists_by_id" -> Ret("bool", <<>>, 0)

\* find_all, count, find_by_id, exists_by_id
read_access(op, entities, loaded, files, fault) ==
    Returning(ensure_loaded(entities, loaded, files, fault),
              ReadRet(op, ensure_loaded(entities, loaded, files, fault)))

\* clear that empties the list and leaves the repository unloaded
clearUnloaded(entities, loaded) == RepoCall(<<>>, FALSE, NoErr, NoRet, FALSE, FALSE)

\* OceanInMemoryRepository.clear
clear(entities, loaded) == RepoCall(<<>>, TRUE, NoErr, NoRet, FALSE, FALSE)

\* save that stores the entity
Repository_saveStores(entities, loaded) ==
    RepoCall(Append(entities, [user_id |-> 0, age |-> 0]), loaded, NoErr, NoRet, FALSE, FALSE)

\* OceanInMemoryRepository.save
Repository_save(entities, loaded) ==
    RepoCall(entities, loaded, NotImplemented, NoRet, FALSE, FALSE)

\* OceanInMemoryRepository.delete
Repository_delete(entities, loaded) ==
    RepoCall(entities, loaded, NotImplemented, NoRet, FALSE, FALSE)

(***************************************************************************)
(* The JSON text of an envelope.  A text is the sequence of its members in *)
(* field order; a member's value is a token: a string token holds the      *)
(* characters between and including the quotes, a number token the sign    *)
(* and the decimal digits before and after the point (frac = <<>>: no      *)
(* point).  A Python string is a sequence of pieces, each one character or *)
(* a run of characters JSON leaves as they are.  A float of the model is a *)
(* quotient of two integers with a denominator up to FloatDen.             *)
(***************************************************************************)
NoOutput == <<>>

Member(key, tok) == [key |-> key, tok |-> tok]

\* the largest denominator of a mean: the most ages a run can collect
FloatDen == MaxFiles * MaxLen

DigitChars == <<"0", "1", "2", "3", "4", "5", "6", "7", "8", "9">>

PyAbs(n) == IF n < 0 THEN -n ELSE n

\* the decimal digits of n >= 0, most significant first
RECURSIVE Digits(_)
Digits(n) == IF n < 10 THEN <<n>> ELSE Digits(n \div 10) \o <<n % 10>>

\* str(n) of an int
IntChars(n) ==
    (IF n < 0 THEN <<"-">> ELSE <<>>) \o [i \in 1..Len(Digits(PyAbs(n))) |-> DigitChars[Digits(PyAbs(n))[i] + 1]]

\* str(x) of a value
ValueChars(x) ==
    CASE x.t = "int" -> IntChars(x.v)
      [] x.t = "bool" -> IF x.v = 1 THEN <<"True">> ELSE <<"False">>
      [] x.t = "float" -> IntChars(x.v) \o <<".", "0">>
      [] x.t = "str" -> IntChars(x.v)
      [] OTHER -> <<>>

\* the message string f"{context}: {e}" (the context alone on success)
MessageChars(m) ==
    IF m.err.kind = "none" THEN <<m.context>>
    ELSE <<m.context, ":", " ", m.err.text>> \o ValueChars(m.err.value)
             \o (IF m.err.source = "" THEN <<>> ELSE <<m.err.source>>)

\* JSON string escaping: the quote, the backslash and the line feed
RECURSIVE JsonEscape(_)
JsonEscape(s) ==
    IF s = <<>> THEN <<>>
    ELSE (CASE Head(s) = "\"" -> <<"\\", "\"">>
            [] Head(s) = "\\" -> <<"\\", "\\">>
            [] Head(s) = "\n" -> <<"\\", "n">>
            [] OTHER -> <<Head(s)>>) \o JsonEscape(Tail(s))

\* the decoder's reading of the characters between the quotes
RECURSIVE JsonUnescape(_)
JsonUnescape(s) ==
    IF s = <<>> THEN <<>>
    ELSE IF Head(s) = "\\" /\ Len(s) >= 2
    THEN <<IF s[2] = "n" THEN "\n" ELSE s[2]>> \o JsonUnescape(Tail(Tail(s)))
    ELSE <<Head(s)>> \o JsonUnescape(Tail(s))

DumpStr(s) == [type |-> "string", chars |-> <<"\"">> \o JsonEscape(s) \o <<"\"">>]

DumpInt(n) == [type |-> "number", neg |-> n < 0, int |-> Digits(PyAbs(n)), frac |-> <<>>]

\* the first k digits after the point of r / d (r < d), none after the
\* division has come out even
RECURSIVE FracDigits(_, _, _)
FracDigits(r, d, k) ==
    IF r = 0 \/ k = 0 THEN <<>>
    ELSE <<(r * 10) \div d>> \o FracDigits((r * 10) % d, d, k - 1)

\* a float printed with two digits after the point, rounded half up
DumpFloatRounded(x) ==
    [type |-> "number", neg |-> x.num < 0,
     int |-> Digits(((PyAbs(x.num) * 200 + x.den) \div (2 * x.den)) \div 100),
     frac |-> <<(((PyAbs(x.num) * 200 + x.den) \div (2 * x.den)) % 100) \div 10,
                ((PyAbs(x.num) * 200 + x.den) \div (2 * x.den)) % 10>>]

\* a float as model_dump_json prints it: the digits before the point, the
\* point, and up to 16 digits after it ("51.0", "38.25",
\* "0.6666666666666666")
DumpFloat(x) ==
    [type |-> "number", neg |-> x.num < 0,
     int |-> Digits(PyAbs(x.num) \div x.den),
     frac |-> IF PyAbs(x.num) % x.den = 0 THEN <<0>>
              ELSE FracDigits(PyAbs(x.num) % x.den, x.den, 16)]

NullToken == [type |-> "null"]

\* the envelopes AgeAverageAlgorithm.run builds itself are AgeResponseDTO
\* objects, which have the field "data" (None); the others are AgeResults
IsResponseDTO(results) == results.message.context \in {"Validation error", "Algorithm error"}

\* results.model_dump_json(...): the fields in declaration order
model_dump_json(results) ==
    <<Member("status", DumpStr(<<results.status>>)),
      Member("message", DumpStr(MessageChars(results.message)))>>
        \o (IF IsResponseDTO(results) THEN <<Member("data", NullToken)>> ELSE <<>>)
        \o <<Member("min_age", DumpInt(results.min_age)),
             Member("max_age", DumpInt(results.max_age)),
             Member("avg_age", DumpFloat(results.avg_age))>>

\* the number a digit sequence writes
RECURSIVE Horner(_)
Horner(ds) ==
    IF ds = <<>> THEN 0 ELSE Horner(SubSeq(ds, 1, Len(ds) - 1)) * 10 + ds[Len(ds)]

RECURSIVE Pow10(_)
Pow10(k) == IF k = 0 THEN 1 ELSE 10 * Pow10(k - 1)

Signed(neg, n) == IF neg THEN -n ELSE n

NotANumber == [num |-> 0, den |-> 0]

\* the one float among the candidates, if any
TheFloat(match) == IF match = {} THEN NotANumber ELSE CHOOSE c \in match : TRUE

\* float() of a number with all 16 digits after the point: the float
\* nearest to it, which is the float that prints as those digits
NearestFloat(tok) ==
    TheFloat({c \in {Ratio(Signed(tok.neg, Horner(tok.int) * q + p), q) :
                        q \in 1..FloatDen, p \in 0..FloatDen} :
                 DumpFloat(c) = tok})

\* float() of a number with fewer digits: its exact value
ExactFloat(tok) ==
    Ratio(Signed(tok.neg, Horner(tok.int) * Pow10(Len(tok.frac)) + Horner(tok.frac)),
          Pow10(Len(tok.frac)))

\* json.load of one token: a number without a point is an int, one with a
\* point a float
ParseToken(tok) ==
    CASE tok.type = "string" ->
            [t |-> "str", v |-> JsonUnescape(SubSeq(tok.chars, 2, Len(tok.chars) - 1))]
      [] tok.type = "null" -> NoneVal
      [] tok.type = "number" /\ tok.frac = <<>> ->
            IntVal(Signed(tok.neg, Horner(tok.int)))
      [] tok.type = "number" /\ tok.frac # <<>> ->
            FloatVal(IF Len(tok.frac) < 16 THEN ExactFloat(tok) ELSE NearestFloat(tok))

\* json.load of the output file: the dict of its members
json_load(doc) ==
    [k \in {doc[i].key : i \in DOMAIN doc} |->
        ParseToken(doc[CHOOSE i \in DOMAIN doc : doc[i].key = k].tok)]

(***************************************************************************)
(* save: the callback the host calls with the envelope run returned.       *)
(***************************************************************************)
SaveOutcome(raised, written, writes, logged, output) ==
    [raised |-> raised, written |-> written, writes |-> writes, logged |-> logged,
     output |-> output]

\* the try block of ResultWriter.write_json of shared/infrastructure: the
\* JSON text of the results is written to the file; fault = "write" is a
\* failure of mkdir or write_text, wrapped as FileOperationError
write_json(results, fault) ==
    IF fault = "write"
    THEN SaveOutcome(Err("FileOperationError", "Error writing results to", NoneVal, ""),
                     FALSE, 1, FALSE, NoOutput)
    ELSE SaveOutcome(NoErr, TRUE, 1, FALSE, model_dump_json(results))

\* "writer = ResultWriter(algo.logger, self.config.output)" in
\* AgeAlgorithm.save: the class imported from age_average.infrastructure
\* takes the logger only, so the call raises TypeError before any write
ResultWriter_init ==
    SaveOutcome(Err("Exception", "ResultWriter.__init__() takes 2 positional arguments",
                    NoneVal, ""),
                FALSE, 0, FALSE, NoOutput)

\* the except clauses of AgeAlgorithm.save: a FileOperationError is logged
\* and raised again, anything else is logged and raised as FileOperationError
SaveExcept(w) ==
    IF w.raised.kind = "none" THEN w
    ELSE IF w.raised.kind = "FileOperationError" /\ w.raised.pkg = "shared"
    THEN SaveOutcome(w.raised, w.written, w.writes, TRUE, w.output)
    ELSE SaveOutcome(Err("FileOperationError", "Failed to save results", NoneVal, ""),
                     w.written, w.writes, TRUE, w.output)

\* AgeAlgorithm.save
AgeAlgorithm_save(results, fault) == SaveExcept(ResultWriter_init)

\* ResponseWriter.write_json (shared.infrastructure.response_writer): it
\* writes the file as the try block of ResultWriter.write_json does
ResponseWriter_write_json(results, fault) == write_json(results, fault)

\* Response.write_results hands the results to the injected ResponseWriter
write_results(results, fault) == ResponseWriter_write_json(results, fault)

\* the except clauses of AgeAverageAlgorithm.save with the error logged and
\* not raised again
AverageSaveSwallow(w) ==
    IF w.raised.kind = "none" THEN w
    ELSE SaveOutcome(NoErr, w.written, w.writes, TRUE, w.output)

\* the except clauses of AgeAverageAlgorithm.save: both log and raise again
AverageSaveExcept(w) ==
    IF w.raised.kind = "none" THEN w
    ELSE SaveOutcome(w.raised, w.written, w.writes, TRUE, w.output)

\* AgeAverageAlgorithm.save
AgeAverageAlgorithm_save(results, fault) ==
    AverageSaveExcept(write_results(results, fault))

(***************************************************************************)
(* State.  Each specification below exercises one part of the program and  *)
(* leaves the variables of the other parts alone.                          *)
(***************************************************************************)
VARIABLES
    calcArg,     \* the list handed to a direct call of calculate
    calcLog,     \* whether the logger fails inside that call
    calcRes,     \* what the call returned or raised
    calcPc,      \* "idle" before the call, "done" after it
    parseText,   \* the text handed to a direct call of extract_ages
    parseSource, \* the source name handed to it
    parseWho,    \* which extractor is called: "InputParser" or "AgeExtractor"
    parseRes,    \* what the call returned or raised
    parsePc,     \* "idle" before the call, "done" after it
    variant,     \* the orchestration under test: "AgeAlgorithm",
                 \* "AgeAverageAlgorithm", "Action" (execute called directly) or
                 \* "Repository" (the repository read directly)
    files,       \* the input files the host provides, in host order
    customData,  \* algoCustomData.json: "age", "absent" (no file or no age) or "malformed"
    fault,       \* what fails in the environment: "none", "inputs", "calc" or "write"
    pc,          \* "start", "validated", "ran", "saved", "crashed"; "read" or "failed"
                 \* after a call on the repository that returned or raised
                 \* ("off": not under test)
    validation_error, \* AgeAverageAlgorithm._validation_error (NoErr for None)
    validations, \* per call of AgeAverageAlgorithm.validate_input, in order: the
                 \* class of the exception its try block raised ("none": it passed)
    envelope,    \* the result run returned (NoEnvelope before)
    hostExc,     \* the exception that reached the host (NoErr for none)
    crashedIn,   \* the callback it escaped from: "validate", "run" or "save"
    reads,       \* the indices of the files run read, in order
    calcCalls,   \* the arguments run called calculate with, in order
    written,     \* whether the output file was written
    writes,      \* how many times save tried to write the output file
    saveLog,     \* whether save logged an error
    output,      \* the JSON text in the output file (NoOutput: no file)
    entities,    \* OceanInMemoryRepository._entities
    loaded,      \* OceanInMemoryRepository._loaded
    repoExc,     \* what the last call on the repository raised (NoErr for none)
    repoRet,     \* what the last call on the repository returned
    lastOp,      \* the name of the last call on the repository ("" before any)
    checks,      \* how many times the repository called Request.validate_inputs
    clears,      \* how many times clear() was called
    repoCalls,   \* how many calls were made on the repository
    batch_size,  \* the argument of Request.batch_iter
    batch,       \* the local list "batch" of the suspended generator
    batches,     \* the batches the generator has yielded, in order
    mapArg,      \* the argument of a direct call of map_to_entities
    mapRes,      \* what the call returned or raised
    mapPc        \* "idle" before the call, "done" after it

calcVars == <<calcArg, calcLog, calcRes, calcPc>>
parseVars == <<parseText, parseSource, parseWho, parseRes, parsePc>>
hostVars == <<variant, files, customData, fault>>
saveVars == <<written, writes, saveLog, output>>
repoVars == <<entities, loaded, repoExc, repoRet, lastOp, checks, clears, repoCalls>>
batchVars == <<batch_size, batch, batches>>
mapVars == <<mapArg, mapRes, mapPc>>
runVars ==
    <<pc, validation_error, validations, envelope, hostExc, crashedIn, reads, calcCalls, saveVars, repoVars,
      batchVars>>
vars == <<calcVars, parseVars, hostVars, runVars, mapVars>>

\* the calculator is not under test
CalcOff ==
    /\ calcArg = NoneArg
    /\ calcLog = FALSE
    /\ calcRes = Raise(NoErr)
    /\ calcPc = "off"

\* the extractors are not under test
ParseOff ==
    /\ parseText = EmptyText
    /\ parseSource = "a.json"
    /\ parseWho = "InputParser"
    /\ parseRes = Fail(NoErr)
    /\ parsePc = "off"

\* the mapper is not under test
MapOff ==
    /\ mapArg = NoneArg
    /\ mapRes = Loaded(NoErr, <<>>)
    /\ mapPc = "off"

\* no orchestration is under test
RunOff ==
    /\ batch_size = 0
    /\ variant = "Action"
    /\ files = <<>>
    /\ customData = "age"
    /\ fault = "none"
    /\ pc = "off"
    /\ validation_error = NoErr
    /\ validations = <<>>
    /\ envelope = NoEnvelope
    /\ hostExc = NoErr
    /\ crashedIn = ""
    /\ reads = <<>>
    /\ calcCalls = <<>>
    /\ written = FALSE
    /\ writes = 0
    /\ saveLog = FALSE
    /\ output = NoOutput
    /\ entities = <<>>
    /\ loaded = FALSE
    /\ repoExc = NoErr
    /\ repoRet = NoRet
    /\ lastOp = ""
    /\ checks = 0
    /\ clears = 0
    /\ repoCalls = 0
    /\ batch = <<>>
    /\ batches = <<>>

(***************************************************************************)
(* SpecCalc: direct calls of AgeStatisticsCalculator.calculate.            *)
(***************************************************************************)
CalcArgs == {NoneArg, NotListArg} \cup {ListArg(s) : s \in SeqUpTo(Vals, MaxLen)}

CalcInit ==
    /\ calcArg \in CalcArgs
    /\ calcLog \in BOOLEAN
    /\ calcRes = Raise(NoErr)
    /\ calcPc = "idle"
    /\ ParseOff
    /\ RunOff
    /\ MapOff

\* one call of AgeStatisticsCalculator.calculate
Calculate ==
    /\ calcPc = "idle"
    /\ calcRes' = calculate(calcArg, calcLog)
    /\ calcPc' = "done"
    /\ UNCHANGED <<calcArg, calcLog, parseVars, hostVars, runVars, mapVars>>

CalcNext == Calculate

SpecCalc == CalcInit /\ [][CalcNext]_vars

(***************************************************************************)
(* SpecParse: direct calls of InputParser.extract_ages (on a text) and of  *)
(* AgeExtractor.extract_ages (on the data json.loads produced).            *)
(***************************************************************************)
ParseInit ==
    /\ parseText \in Texts
    /\ parseSource \in Sources
    /\ parseWho \in {"InputParser", "AgeExtractor"}
    /\ parseWho = "AgeExtractor" => parseText.kind = "json"
    /\ parseRes = Fail(NoErr)
    /\ parsePc = "idle"
    /\ CalcOff
    /\ RunOff
    /\ MapOff

\* one call of InputParser.extract_ages
ParseText ==
    /\ parsePc = "idle"
    /\ parseWho = "InputParser"
    /\ parseRes' = InputParser_extract_ages(parseText, parseSource)
    /\ parsePc' = "done"
    /\ UNCHANGED <<parseText, parseSource, parseWho, calcVars, hostVars, runVars, mapVars>>

\* one call of AgeExtractor.extract_ages
ExtractData ==
    /\ parsePc = "idle"
    /\ parseWho = "AgeExtractor"
    /\ parseRes' = AgeExtractor_extract_ages(parseText.doc, parseSource)
    /\ parsePc' = "done"
    /\ UNCHANGED <<parseText, parseSource, parseWho, calcVars, hostVars, runVars, mapVars>>

ParseNext == ParseText \/ ExtractData

SpecParse == ParseInit /\ [][ParseNext]_vars

(***************************************************************************)
(* SpecMap: direct calls of UserAgeMapper.map_to_entities.  A request is   *)
(* an AgeRequestDTO or any other object, so an attribute may be missing or *)
(* hold any value.                                                         *)
(***************************************************************************)
Requests ==
    {Req(TRUE, IntVal(1), TRUE, x) :
        x \in {IntVal(0), IntVal(MaxAge), IntVal(MaxAge + 1), IntVal(-1),
               BoolVal(TRUE), FloatVal(30), NoneVal}}
        \cup {Req(TRUE, u, TRUE, IntVal(2)) :
                u \in {IntVal(0), IntVal(-1), StrVal(30), NoneVal}}
        \cup {Req(FALSE, NoneVal, TRUE, IntVal(2)), Req(TRUE, IntVal(1), FALSE, NoneVal)}

MapArgs == {NoneArg, NotListArg} \cup {ListArg(s) : s \in SeqUpTo(Requests, MaxLen)}

MapInit ==
    /\ mapArg \in MapArgs
    /\ mapRes = Loaded(NoErr, <<>>)
    /\ mapPc = "idle"
    /\ CalcOff
    /\ ParseOff
    /\ RunOff

\* one call of UserAgeMapper.map_to_entities
Map ==
    /\ mapPc = "idle"
    /\ mapRes' = map_to_entities(mapArg)
    /\ mapPc' = "done"
    /\ UNCHANGED <<mapArg, calcVars, parseVars, hostVars, runVars>>

MapNext == Map

SpecMap == MapInit /\ [][MapNext]_vars

(***************************************************************************)
(* Spec: the callbacks as the host calls them, validate -> run ->          *)
(* save_results, for both algorithm classes; run may also be called        *)
(* without validate, and the action's execute and the repository's read    *)
(* access are called on their own.  An exception that escapes a callback   *)
(* reaches the host and ends the job.                                      *)
(***************************************************************************)
Algorithms == {"AgeAlgorithm", "AgeAverageAlgorithm"}

\* the input files batch_iter is run on: three with different contents and
\* one that cannot be read
BatchFiles ==
    {TextFile(MalformedText),
     TextFile(JsonText(ListDoc(<<ObjAge(IntVal(1))>>))),
     TextFile(JsonText(DictDoc(AgesList(<<IntVal(0), IntVal(1)>>)))),
     UnreadableFile}

\* the paths read_text is called on directly
ReaderFiles ==
    {MissingFile, DirectoryFile, UnreadableFile, TextFile(EmptyText), TextFile(SpaceText),
     TextFile(MalformedText), TextFile(JsonText(ListDoc(<<ObjAge(IntVal(1))>>)))}

\* the batch sizes it is called with
BatchSizes == -1..(MaxInputs + 1)

Init ==
    /\ variant \in Algorithms \cup {"Action", "Repository", "Request", "Reader"}
    /\ files \in IF variant = "Request" THEN SeqUpTo(BatchFiles, MaxInputs)
                 ELSE IF variant = "Reader" THEN {<<f>> : f \in ReaderFiles}
                 ELSE SeqUpTo(RunFiles, MaxFiles)
    /\ customData \in {"age", "absent", "malformed"}
    /\ variant # "AgeAverageAlgorithm" => customData = "age"
    /\ fault \in {"none", "inputs", "calc", "write"}
    /\ variant = "Action" => fault # "write"
    /\ variant \in {"Repository", "Request"} => fault \in {"none", "inputs"}
    /\ variant = "Reader" => fault = "none"
    /\ pc = "start"
    /\ validation_error = NoErr
    /\ validations = <<>>
    /\ envelope = NoEnvelope
    /\ hostExc = NoErr
    /\ crashedIn = ""
    /\ reads = <<>>
    /\ calcCalls = <<>>
    /\ written = FALSE
    /\ writes = 0
    /\ saveLog = FALSE
    /\ output = NoOutput
    /\ entities = <<>>
    /\ loaded = FALSE
    /\ repoExc = NoErr
    /\ repoRet = NoRet
    /\ lastOp = ""
    /\ checks = 0
    /\ clears = 0
    /\ repoCalls = 0
    /\ batch = <<>>
    /\ batches = <<>>
    /\ CalcOff
    /\ ParseOff
    /\ MapOff
    /\ batch_size \in IF variant = "Request" THEN BatchSizes ELSE {0}

\* what a call of validate leaves behind
HasValidated(v) ==
    /\ validation_error' = v.stored
    /\ hostExc' = v.raised
    /\ crashedIn' = IF v.raised.kind = "none" THEN crashedIn ELSE "validate"
    /\ pc' = IF v.raised.kind = "none" THEN "validated" ELSE "crashed"
    /\ UNCHANGED <<envelope, reads, calcCalls, saveVars, repoVars, hostVars, calcVars, parseVars, batchVars, mapVars>>

\* the host calls the validate callback (BaseAlgorithm.validate)
\* (on AgeAverageAlgorithm also once more after it returned)
Validate ==
    /\ variant \in Algorithms
    /\ \/ pc = "start"
       \/ pc = "validated" /\ variant = "AgeAverageAlgorithm" /\ Len(validations) < MaxCalls
    /\ HasValidated(IF variant = "AgeAlgorithm"
                    THEN AgeAlgorithm_validate(files, fault)
                    ELSE AgeAverageAlgorithm_validate(files, fault, customData,
                                                      validation_error))
    /\ validations' = IF variant = "AgeAverageAlgorithm"
                         /\ validate_inputs(files, fault).kind = "none"
                      THEN Append(validations, custom_age(customData).kind)
                      ELSE validations

\* what a call of run or execute leaves behind
Ran(o) ==
    /\ envelope' = o.env
    /\ reads' = o.reads
    /\ calcCalls' = o.calls
    /\ hostExc' = o.raised
    /\ crashedIn' = IF o.raised.kind = "none" THEN crashedIn ELSE "run"
    /\ pc' = IF o.raised.kind = "none" THEN "ran" ELSE "crashed"
    /\ UNCHANGED <<validation_error, validations, saveVars, repoVars, hostVars, calcVars, parseVars, batchVars, mapVars>>

\* the run callback: AgeAlgorithm.run or AgeAverageAlgorithm.run
Run ==
    /\ pc \in {"start", "validated"}
    /\ variant \in Algorithms
    /\ Ran(IF variant = "AgeAlgorithm"
           THEN AgeAlgorithm_run(files, fault)
           ELSE AgeAverageAlgorithm_run(files, fault, validation_error))

\* a direct call of CalculateAgeStatisticsAction.execute
Execute ==
    /\ pc = "start"
    /\ variant = "Action"
    /\ Ran(execute(files, fault))

\* what a call of save leaves behind
Saved(o) ==
    /\ written' = o.written
    /\ writes' = o.writes
    /\ saveLog' = o.logged
    /\ output' = o.output
    /\ hostExc' = o.raised
    /\ crashedIn' = IF o.raised.kind = "none" THEN crashedIn ELSE "save"
    /\ pc' = IF o.raised.kind = "none" THEN "saved" ELSE "crashed"
    /\ UNCHANGED <<validation_error, validations, envelope, reads, calcCalls, repoVars, hostVars,
                   calcVars, parseVars, batchVars, mapVars>>

\* the save_results callback: AgeAlgorithm.save (registered directly) or
\* BaseAlgorithm.save_results around AgeAverageAlgorithm.save
SaveResults ==
    /\ pc = "ran"
    /\ variant \in Algorithms
    /\ Saved(IF variant = "AgeAlgorithm"
             THEN AgeAlgorithm_save(envelope, fault)
             ELSE AgeAverageAlgorithm_save(envelope, fault))

ReadOps == {"find_all", "count", "find_by_id", "exists_by_id"}

\* what a call on the repository leaves behind
Called(op, c) ==
    /\ entities' = c.entities
    /\ loaded' = c.loaded
    /\ repoExc' = c.raised
    /\ repoRet' = c.ret
    /\ lastOp' = op
    /\ checks' = IF c.checked THEN checks + 1 ELSE checks
    /\ reads' = IF c.read THEN Append(reads, 1) ELSE reads
    /\ clears' = IF op = "clear" THEN clears + 1 ELSE clears
    /\ repoCalls' = repoCalls + 1
    /\ pc' = IF c.raised.kind = "none" THEN "read" ELSE "failed"
    /\ UNCHANGED <<validation_error, validations, envelope, hostExc, crashedIn, calcCalls,
                   saveVars, hostVars, calcVars, parseVars, batchVars, mapVars>>

\* the repository is under test and may be called once more
CanCall ==
    /\ variant = "Repository"
    /\ pc \in {"start", "read", "failed"}
    /\ repoCalls < MaxCalls

\* OceanInMemoryRepository.find_all
FindAll ==
    /\ CanCall
    /\ Called("find_all", read_access("find_all", entities, loaded, files, fault))

\* OceanInMemoryRepository.count
Count ==
    /\ CanCall
    /\ Called("count", read_access("count", entities, loaded, files, fault))

\* OceanInMemoryRepository.find_by_id
FindById ==
    /\ CanCall
    /\ Called("find_by_id", read_access("find_by_id", entities, loaded, files, fault))

\* OceanInMemoryRepository.exists_by_id
ExistsById ==
    /\ CanCall
    /\ Called("exists_by_id", read_access("exists_by_id", entities, loaded, files, fault))

\* OceanInMemoryRepository.clear
Clear ==
    /\ CanCall
    /\ Called("clear", clear(entities, loaded))

\* OceanInMemoryRepository.save
Save ==
    /\ CanCall
    /\ Called("save", Repository_save(entities, loaded))

\* OceanInMemoryRepository.delete
Delete ==
    /\ CanCall
    /\ Called("delete", Repository_delete(entities, loaded))

\* an explicit call of get_entities_from_input
GetEntitiesFromInput ==
    /\ CanCall
    /\ Called("get_entities_from_input", Repository_load(entities, files, fault))

\* what a next() on the generator leaves behind
Advanced(g) ==
    /\ pc' = g.pc
    /\ batch' = g.batch
    /\ batches' = IF g.pc = "yielded" THEN Append(batches, g.batch) ELSE batches
    /\ hostExc' = g.raised
    /\ reads' = g.reads
    /\ UNCHANGED <<batch_size, validation_error, validations, envelope, crashedIn, calcCalls,
                   saveVars, repoVars, hostVars, calcVars, parseVars, mapVars>>

\* next() on the generator Request.batch_iter(batch_size) returned
BatchNext ==
    /\ variant = "Request"
    /\ pc \in {"start", "yielded"}
    /\ Advanced(IF pc = "start"
                THEN batch_iter_start(files, fault, batch_size)
                ELSE batch_iter_resume(files, batch_size, reads))

\* what a direct call of read_text leaves behind
HasRead(r) ==
    /\ pc' = IF r.ok THEN "read" ELSE "failed"
    /\ hostExc' = r.err
    /\ reads' = <<1>>
    /\ UNCHANGED <<validation_error, validations, envelope, crashedIn, calcCalls, saveVars, repoVars,
                   batchVars, hostVars, calcVars, parseVars, mapVars>>

\* a direct call of FileReader.read_text on the one path given
ReadText ==
    /\ variant = "Reader"
    /\ pc = "start"
    /\ HasRead(read_text(files[1], FileName(1)))

\* the environment between two calls of validate: the custom data file now
\* holds the parameter 'age'
CustomDataFixed ==
    /\ variant = "AgeAverageAlgorithm"
    /\ pc = "validated"
    /\ customData # "age"
    /\ customData' = "age"
    /\ UNCHANGED <<variant, files, fault, runVars, calcVars, parseVars, mapVars>>

\* the environment between two calls on the repository: from now on the
\* host's job_details.inputs() raises
InputsFail ==
    /\ variant = "Repository"
    /\ pc \in {"read", "failed"}
    /\ fault = "none"
    /\ fault' = "inputs"
    /\ UNCHANGED <<variant, files, customData, runVars, calcVars, parseVars, mapVars>>

Next ==
    \/ Validate \/ Run \/ Execute \/ SaveResults
    \/ FindAll \/ Count \/ FindById \/ ExistsById
    \/ Clear \/ Save \/ Delete \/ GetEntitiesFromInput
    \/ InputsFail
    \/ BatchNext
    \/ ReadText
    \/ CustomDataFixed

Spec == Init /\ [][Next]_vars

(***************************************************************************)
(* Properties of AgeStatisticsCalculator.calculate (SpecCalc).             *)
(***************************************************************************)
\* the call got a non-empty list whose elements are all integers in [0,150],
\* and its logger call did not fail
CalcValidInput ==
    /\ calcArg.t = "list"
    /\ calcArg.items # <<>>
    /\ \A i \in 1..Len(calcArg.items) :
        /\ calcArg.items[i].t = "int"
        /\ calcArg.items[i].v \in 0..MaxAge
    /\ ~calcLog

\* C5: for every non-empty list of integers in [0,150], calculate returns
\* statistics with min_age <= avg_age <= max_age and count = the length of
\* the list.
C5_CalcOrdered ==
    (calcPc = "done" /\ CalcValidInput) =>
        /\ calcRes.ok
        /\ calcRes.stats.min_age.v * calcRes.stats.avg_age.den <= calcRes.stats.avg_age.num
        /\ calcRes.stats.avg_age.num <= calcRes.stats.max_age.v * calcRes.stats.avg_age.den
        /\ calcRes.stats.avg_age.den > 0
        /\ calcRes.stats.count = Len(calcArg.items)

\* a list of three valid ages whose mean lies strictly between its extremes
C5_Witness ==
    /\ calcPc = "done"
    /\ CalcValidInput
    /\ Len(calcArg.items) = 3
    /\ calcRes.ok
    /\ calcRes.stats.min_age.v * calcRes.stats.avg_age.den < calcRes.stats.avg_age.num
    /\ calcRes.stats.avg_age.num < calcRes.stats.max_age.v * calcRes.stats.avg_age.den

\* C6: for every non-empty list of integers in [0,150], min_age is the
\* smallest element, max_age the largest and avg_age exactly sum / count
\* (no rounding), duplicates and ties included; a single-element list yields
\* min_age = max_age = avg_age = that element.
C6_CalcExact ==
    (calcPc = "done" /\ CalcValidInput) =>
        LET s == calcArg.items
            st == calcRes.stats
        IN /\ calcRes.ok
           /\ \E i \in 1..Len(s) : s[i] = st.min_age
           /\ \A i \in 1..Len(s) : st.min_age.v <= s[i].v
           /\ \E i \in 1..Len(s) : s[i] = st.max_age
           /\ \A i \in 1..Len(s) : st.max_age.v >= s[i].v
           /\ st.avg_age.num * Len(s) = PySum(s) * st.avg_age.den
           /\ st.avg_age.den > 0
           /\ Len(s) = 1 =>
                /\ st.min_age = s[1]
                /\ st.max_age = s[1]
                /\ st.avg_age = [num |-> s[1].v, den |-> 1]

\* a list with a duplicate whose mean is no whole number
C6_Witness ==
    /\ calcPc = "done"
    /\ CalcValidInput
    /\ calcArg.items = <<IntVal(1), IntVal(1), IntVal(2)>>
    /\ calcRes.stats.avg_age = [num |-> 4, den |-> 3]

\* C7: calculate on None or on an empty list fails with a ValidationError;
\* it never returns statistics (zero-valued or other) for an empty input.
C7_CalcEmptyFails ==
    (calcPc = "done" /\ (calcArg.t = "NoneType" \/ calcArg = ListArg(<<>>))) =>
        /\ ~calcRes.ok
        /\ calcRes.err.kind = "ValidationError"
        /\ calcRes.stats = NoStats

\* the empty list was passed and the call raised
C7_Witness ==
    /\ calcPc = "done"
    /\ calcArg = ListArg(<<>>)
    /\ calcRes.err.kind = "ValidationError"

\* an element the claim calls invalid: not of integer type, or outside [0,150]
Offending(x) == x.t # "int" \/ x.v < 0 \/ x.v > MaxAge

\* C8: calculate fails with a ValidationError naming the offending value
\* whenever any element of the list, at any position, is not an integer or
\* lies outside [0,150]; no statistics are returned.
C8_CalcRejectsInvalid ==
    (/\ calcPc = "done"
     /\ calcArg.t = "list"
     /\ \E i \in 1..Len(calcArg.items) : Offending(calcArg.items[i])) =>
        /\ ~calcRes.ok
        /\ calcRes.err.kind = "ValidationError"
        /\ \E i \in 1..Len(calcArg.items) :
            /\ Offending(calcArg.items[i])
            /\ calcRes.err.value = calcArg.items[i]
        /\ calcRes.stats = NoStats

(***************************************************************************)
(* Properties of the extractors (SpecParse).                               *)
(***************************************************************************)
\* the candidate ages of a document, in input order: the "age" values of the
\* array's objects, or the elements of the "ages" array
Candidates(doc) ==
    IF doc.t = "list"
    THEN LET objs == SelectSeq(doc.items, LAMBDA it : it.t = "dict" /\ it.has_age)
         IN [i \in 1..Len(objs) |-> objs[i].age]
    ELSE doc.ages.items

\* the document has one of the two shapes, and every element of a shape-A
\* array handed to AgeExtractor is an object
InShape(doc, who) ==
    \/ /\ doc.t = "list"
       /\ who = "AgeExtractor" =>
            /\ doc.items # <<>>
            /\ \A i \in 1..Len(doc.items) : doc.items[i].t = "dict"
    \/ doc.t = "dict" /\ doc.has_ages /\ doc.ages.t = "list"

\* a candidate the claim rejects: not of integer type, or negative
BadCandidate(x) == x.t # "int" \/ x.v < 0

\* C9: in both input shapes extract_ages accepts a candidate age only if it
\* is of integer type (no float, no numeric string) and >= 0; the first
\* candidate that fails raises a ValidationError naming the value and the
\* source, and no partial list of the ages collected so far is returned.
C9_OnlyIntegersAccepted ==
    (parsePc = "done" /\ parseText.kind = "json" /\ InShape(parseText.doc, parseWho)) =>
        LET c == Candidates(parseText.doc)
            bad == {i \in 1..Len(c) : BadCandidate(c[i])}
        IN IF bad # {}
           THEN LET first == CHOOSE i \in bad : \A j \in bad : i <= j
                IN /\ ~parseRes.ok
                   /\ parseRes.err.kind = "ValidationError"
                   /\ parseRes.err.value = c[first]
                   /\ parseRes.err.source = parseSource
                   /\ parseRes.ages = <<>>
           ELSE parseRes.ok =>
                    \A i \in 1..Len(parseRes.ages) : ~BadCandidate(parseRes.ages[i])

\* C10: InputParser.extract_ages classifies every failure by kind: blank
\* (empty or whitespace-only) text raises ValidationError; non-blank text
\* that is not well-formed JSON raises ParsingError, never ValidationError;
\* well-formed JSON with bad content raises ValidationError, never
\* ParsingError.
C10_FailureKinds ==
    (parsePc = "done" /\ parseWho = "InputParser") =>
        /\ parseText.kind \in {"empty", "space"} =>
            ~parseRes.ok /\ parseRes.err.kind = "ValidationError"
        /\ parseText.kind = "malformed" =>
            ~parseRes.ok /\ parseRes.err.kind = "ParsingError"
        /\ parseText.kind = "json" =>
            parseRes.ok \/ parseRes.err.kind = "ValidationError"

\* whitespace-only text was rejected as a validation failure
C10_Witness ==
    /\ parsePc = "done"
    /\ parseWho = "InputParser"
    /\ parseText.kind = "space"
    /\ parseRes.err.kind = "ValidationError"

\* the text is JSON holding an array, and the call has returned or raised
ArrayParsed == parsePc = "done" /\ parseText.kind = "json" /\ parseText.doc.t = "list"

\* every element of the array is an object
AllObjects(doc) == \A i \in 1..Len(doc.items) : doc.items[i].t = "dict"

\* C11: for an array of objects whose "age" values are all valid,
\* extract_ages returns exactly the "age" values of the elements that have
\* the key, in array order and with duplicates kept; elements without the
\* key are skipped and cause no error.
C11_ArrayOrderKept ==
    (/\ ArrayParsed
     /\ AllObjects(parseText.doc)
     /\ Candidates(parseText.doc) # <<>>
     /\ \A i \in 1..Len(Candidates(parseText.doc)) :
            ~BadCandidate(Candidates(parseText.doc)[i])) =>
        /\ parseRes.ok
        /\ parseRes.ages = Candidates(parseText.doc)

\* a duplicate age on both sides of an element without the key
C11_Witness ==
    /\ ArrayParsed
    /\ parseText.doc.items = <<ObjAge(IntVal(1)), ObjNoAge, ObjAge(IntVal(1))>>
    /\ parseRes.ages = <<IntVal(1), IntVal(1)>>

\* C12: extract_ages never returns an empty list: a successful result has
\* length >= 1, and well-formed JSON of a supported shape from which no age
\* was collected raises a ValidationError.
C12_NeverEmpty ==
    parsePc = "done" =>
        /\ parseRes.ok => Len(parseRes.ages) >= 1
        /\ (/\ parseText.kind = "json"
            /\ InShape(parseText.doc, parseWho)
            /\ Candidates(parseText.doc) = <<>>) =>
                ~parseRes.ok /\ parseRes.err.kind = "ValidationError"

\* {"ages": []} was rejected because no age was found
C12_Witness ==
    /\ parsePc = "done"
    /\ parseText = JsonText(DictDoc(AgesList(<<>>)))
    /\ ~parseRes.ok
    /\ parseRes.err.text = "No valid ages found in"

\* C13: when the array-of-objects shape is selected (an array whose first
\* element is an object), any element that is not an object makes
\* extract_ages raise a ValidationError; it is never silently skipped.
C13_NonObjectRejected ==
    (/\ ArrayParsed
     /\ parseText.doc.items # <<>>
     /\ parseText.doc.items[1].t = "dict"
     /\ ~AllObjects(parseText.doc)) =>
        ~parseRes.ok /\ parseRes.err.kind = "ValidationError"

\* well-formed JSON of neither shape: an empty array, an array whose first
\* element is no object, an object without "ages", "ages" that is no array,
\* or a scalar
Unsupported(doc) ==
    \/ doc.t = "list" /\ doc.items = <<>>
    \/ doc.t = "list" /\ doc.items # <<>> /\ doc.items[1].t # "dict"
    \/ doc.t = "dict" /\ ~doc.has_ages
    \/ doc.t = "dict" /\ doc.has_ages /\ doc.ages.t # "list"
    \/ doc.t \notin {"list", "dict"}

\* C14: the shapes are tried in priority order (an array whose first element
\* is an object, then an object with an "ages" array); every other
\* well-formed JSON input raises a ValidationError.
C14_OtherShapesRejected ==
    (parsePc = "done" /\ parseText.kind = "json" /\ Unsupported(parseText.doc)) =>
        ~parseRes.ok /\ parseRes.err.kind = "ValidationError"

(***************************************************************************)
(* Properties of the orchestration (Spec).                                 *)
(***************************************************************************)
\* run (or execute) has returned
HasRun == pc \in {"ran", "saved"} \/ crashedIn = "save"

\* C1: whatever the input files are and whatever fails while reading,
\* extracting or calculating (ValidationError, ParsingError,
\* CalculationError, FileOperationError or an unexpected exception), run /
\* execute returns a result envelope and lets no exception reach its caller.
C1_RunAlwaysReturns ==
    /\ crashedIn # "run"
    /\ HasRun => envelope.status \in {"success", "error"}

\* the host's input enumeration raised an unexpected exception inside run,
\* and run returned an error envelope built from it
C1_Witness ==
    /\ HasRun
    /\ fault = "inputs"
    /\ envelope.status = "error"
    /\ envelope.message.err.kind = "Exception"

\* the four error kinds of the domain
DomainErrors == {"ValidationError", "ParsingError", "CalculationError", "FileOperationError"}

\* C2: across validate -> run -> save_results, a ValidationError,
\* ParsingError, CalculationError or FileOperationError that arises anywhere
\* other than while writing the output file never reaches the host as an
\* exception (the validate step with no input files included).
C2_OnlySaveRaises ==
    hostExc.kind \in DomainErrors => crashedIn = "save"

\* C3: every envelope a run produces has min_age = 0, max_age = 0 and
\* avg_age = 0.0 when its status is "error", and min_age <= avg_age <=
\* max_age when its status is "success".
C3_EnvelopeInvariant ==
    /\ envelope.status = "error" =>
        /\ envelope.min_age = 0
        /\ envelope.max_age = 0
        /\ envelope.avg_age = [num |-> 0, den |-> 1]
    /\ envelope.status = "success" =>
        /\ envelope.avg_age.den > 0
        /\ envelope.min_age * envelope.avg_age.den <= envelope.avg_age.num
        /\ envelope.avg_age.num <= envelope.max_age * envelope.avg_age.den

\* a success envelope whose average lies strictly between its extremes
C3_Witness ==
    /\ HasRun
    /\ envelope.status = "success"
    /\ envelope.min_age * envelope.avg_age.den < envelope.avg_age.num
    /\ envelope.avg_age.num < envelope.max_age * envelope.avg_age.den

\* the ages of the i-th input file, read and extracted on its own
FileAges(i) ==
    InputParser_extract_ages(read_text(files[i], FileName(i)).text, FileName(i))

\* every input file can be read and extracts successfully
AllExtract ==
    \A i \in 1..Len(files) :
        read_text(files[i], FileName(i)).ok /\ FileAges(i).ok

\* the ages of the first n files, concatenated in host order
RECURSIVE Combined(_)
Combined(n) == IF n = 0 THEN <<>> ELSE Combined(n - 1) \o FileAges(n).ages

\* C4: when every input file extracts successfully, the calculator is called
\* once, with the concatenation of the ages of all files in host order, and
\* a success envelope carries the minimum, maximum and mean of that list.
C4_StatsOfCombinedList ==
    (HasRun /\ AllExtract /\ fault # "inputs" /\ validation_error.kind = "none") =>
        LET all == Combined(Len(files))
            nums == {all[i].v : i \in 1..Len(all)}
        IN /\ calcCalls = <<ListArg(all)>>
           /\ envelope.status = "success" =>
                /\ envelope.min_age \in nums
                /\ \A x \in nums : envelope.min_age <= x
                /\ envelope.max_age \in nums
                /\ \A x \in nums : envelope.max_age >= x
                /\ envelope.avg_age.num * Len(all) = PySum(all) * envelope.avg_age.den

\* two files, the minimum from one and the maximum from the other
C4_Witness ==
    /\ HasRun
    /\ Len(files) = 2
    /\ AllExtract
    /\ envelope.status = "success"
    /\ envelope.min_age = 0
    /\ envelope.max_age = MaxAge
    /\ envelope.avg_age = [num |-> 153, den |-> 4]

\* an integer above the valid range
OverAge(x) == x.t = "int" /\ x.v > MaxAge

\* some input file holds a candidate age that is an integer above 150
HasOverAge ==
    \E i \in 1..Len(files) :
        /\ files[i].kind = "file"
        /\ files[i].text.kind = "json"
        /\ \E j \in 1..Len(Candidates(files[i].text.doc)) :
            OverAge(Candidates(files[i].text.doc)[j])

ExpectedContext(kind) ==
    IF kind \in DomainErrors THEN RunHandlers[kind] ELSE "Unexpected error"

\* C16: each error caught at the orchestration boundary yields an error
\* envelope whose message names the category of the error raised
\* (ValidationError -> "Validation failed", ParsingError -> "Failed to parse
\* input data", CalculationError -> "Failed to calculate statistics",
\* FileOperationError -> "File operation failed", anything else ->
\* "Unexpected error") and carries the error's own message.
C16_CategoryMatchesKind ==
    (HasRun /\ envelope.status = "error" /\ validation_error.kind = "none") =>
        /\ envelope.message.err.kind \in Kinds
        /\ envelope.message.context = ExpectedContext(envelope.message.err.kind)

\* save has returned or raised
HasSaved == pc = "saved" \/ crashedIn = "save"

SampleTexts ==
    {<<"a", "\"", "b">>, <<"\\", "n">>, <<"a", "\n">>, <<"\\", "\"">>, <<>>}

\* back is the dict read from the file, results the envelope written to it
RoundTrips(results, back) ==
    /\ {"status", "message", "min_age", "max_age", "avg_age"} \subseteq DOMAIN back
    /\ back["status"].t = "str"
    /\ back["status"].v = <<results.status>>
    /\ back["message"].t = "str"
    /\ back["message"].v = MessageChars(results.message)
    /\ back["min_age"].t = "int"
    /\ back["min_age"].v = results.min_age
    /\ back["max_age"].t = "int"
    /\ back["max_age"].v = results.max_age
    /\ back["avg_age"].t = "float"
    /\ back["avg_age"].v = results.avg_age

NoFiles == files = <<>> /\ fault # "inputs"

\* C19: with zero input files the outcome is a ValidationError, never a
\* success with zero statistics: validate raises ValidationError("No input
\* files provided") and never passes, a read access on the repository raises
\* the same error and loads nothing (it returns only after clear() marked
\* the repository as loaded), and run returns an error envelope.
C19_NoFilesIsValidationError ==
    NoFiles =>
        /\ pc # "validated"
        /\ crashedIn = "validate" =>
            /\ hostExc.kind = "ValidationError"
            /\ hostExc.text = "No input files provided"
        /\ (pc = "read" /\ lastOp # "clear") => clears > 0
        /\ (pc = "failed" /\ lastOp \notin {"save", "delete"}) =>
            /\ repoExc.kind = "ValidationError"
            /\ repoExc.text = "No input files provided"
            /\ ~loaded
        /\ entities = <<>>
        /\ HasRun =>
            /\ envelope.status = "error"
            /\ envelope.message.err.kind = "ValidationError"

\* a read access on the repository with no input file raised the request's
\* ValidationError
C19_Witness ==
    /\ NoFiles
    /\ variant = "Repository"
    /\ pc = "failed"
    /\ repoExc.text = "No input files provided"

\* C20: AgeAverageAlgorithm.validate_input never raises: a failure (the
\* custom parameter 'age' is missing, the custom data cannot be parsed) is
\* stored on the instance, and the run that follows returns an error
\* envelope "Validation error: ..." with zero statistics and does not
\* execute the calculation action.
C20_ValidationErrorStored ==
    variant = "AgeAverageAlgorithm" =>
        /\ crashedIn = "validate" => (files = <<>> \/ fault = "inputs")
        /\ (pc = "validated" /\ customData # "age") =>
            /\ validation_error.kind \in {"ValidationError", "ParsingError"}
            /\ hostExc.kind = "none"
        /\ (HasRun /\ validation_error.kind # "none") =>
            /\ envelope.status = "error"
            /\ envelope.message = Message("Validation error", validation_error)
            /\ envelope.min_age = 0
            /\ envelope.max_age = 0
            /\ envelope.avg_age = [num |-> 0, den |-> 1]
            /\ reads = <<>>
            /\ calcCalls = <<>>

\* the 'age' parameter was missing, validate returned, and run answered with
\* the stored error although the input files hold valid ages
C20_Witness ==
    /\ variant = "AgeAverageAlgorithm"
    /\ customData = "absent"
    /\ HasRun
    /\ AllExtract
    /\ files # <<>>
    /\ envelope.message.context = "Validation error"
    /\ envelope.message.err.text = "Missing required parameter: age"

(***************************************************************************)
(* Properties of OceanInMemoryRepository (Spec, variant "Repository").      *)
(***************************************************************************)
\* the step is a read access on the repository
ReadStep == variant = "Repository" /\ repoCalls' = repoCalls + 1 /\ lastOp' \in ReadOps

\* a read access on a loaded repository touches neither the input nor the
\* repository; on an unloaded one it calls validate_inputs once, get_content
\* at most once, and stores the entities when loading returned
LazyRead ==
    ReadStep =>
        IF loaded
        THEN /\ checks' = checks
             /\ reads' = reads
             /\ entities' = entities
             /\ loaded'
             /\ repoExc' = NoErr
        ELSE /\ checks' = checks + 1
             /\ Len(reads') <= Len(reads) + 1
             /\ loaded' <=> repoExc' = NoErr
             /\ loaded' =>
                 /\ reads' = Append(reads, 1)
                 /\ entities' = get_entities_from_input(files, fault).entities

\* the repository as its constructor leaves it
Constructed ==
    /\ entities = <<>>
    /\ ~loaded
    /\ checks = 0
    /\ reads = <<>>

LoadStep == variant = "Repository" /\ checks' = checks + 1

RepoErrors == {"ValidationError", "ParsingError", "FileOperationError"}

\* a load that fails raises the error of the try block when that is one of
\* the three domain errors and a FileOperationError otherwise, resets the
\* flag and keeps the stored entities
FailedLoad ==
    (LoadStep /\ repoExc' # NoErr) =>
        /\ repoExc'.kind \in RepoErrors
        /\ repoExc'.pkg = "shared"
        /\ LoadBody(files, fault).err.kind \in RepoErrors =>
            repoExc' = LoadBody(files, fault).err
        /\ LoadBody(files, fault).err.kind \notin RepoErrors =>
            /\ repoExc'.kind = "FileOperationError"
            /\ repoExc'.text = "Unexpected error reading input files"
        /\ ~loaded'
        /\ entities' = entities
        /\ pc' = "failed"

\* a read access on an unloaded repository attempts the load
RetryLoad == (ReadStep /\ ~loaded) => LoadStep

\* C22: when get_entities_from_input fails the error reaches the caller
\* (ValidationError, ParsingError and FileOperationError as raised, any
\* other exception as a FileOperationError), _loaded is false afterwards
\* and _entities is what it was before the call, and the next read access
\* attempts the load again.
C22_FailedLoadResets ==
    /\ [][FailedLoad]_vars
    /\ [][RetryLoad]_vars

\* the repository had loaded entities, the input then failed, an explicit
\* get_entities_from_input raised the wrapped error, and the read access
\* after it tried to load again
C22_Witness ==
    /\ variant = "Repository"
    /\ fault = "inputs"
    /\ entities # <<>>
    /\ ~loaded
    /\ lastOp = "find_all"
    /\ checks = 3
    /\ repoExc.kind = "FileOperationError"
    /\ repoExc.text = "Unexpected error reading input files"

\* clear() empties the list, marks the repository as loaded and does not
\* touch the input
ClearStep ==
    (variant = "Repository" /\ repoCalls' = repoCalls + 1 /\ lastOp' = "clear") =>
        /\ entities' = <<>>
        /\ loaded'
        /\ repoExc' = NoErr
        /\ checks' = checks
        /\ reads' = reads

\* a read access on a cleared repository returns the empty state and does
\* not load: count() is 0, find_all() is empty
ReadCleared ==
    (ReadStep /\ loaded /\ entities = <<>>) =>
        /\ entities' = <<>>
        /\ loaded'
        /\ repoExc' = NoErr
        /\ checks' = checks
        /\ reads' = reads
        /\ lastOp' = "count" => repoRet' = Ret("int", <<>>, 0)
        /\ lastOp' = "find_all" => repoRet' = Ret("list", <<>>, 0)

\* an explicit get_entities_from_input loads also when the repository is
\* marked as loaded
ExplicitLoad ==
    (variant = "Repository" /\ repoCalls' = repoCalls + 1
        /\ lastOp' = "get_entities_from_input") => LoadStep

\* C23: after clear() the repository is empty and marked as loaded, also
\* when nothing was loaded before: count() is 0, find_all() is empty and no
\* read access reads the input, until get_entities_from_input is called
\* explicitly, which loads again.
C23_ClearStaysLoaded ==
    /\ [](lastOp = "clear" => (loaded /\ entities = <<>>))
    /\ [][ClearStep]_vars
    /\ [][ReadCleared]_vars
    /\ [][ExplicitLoad]_vars

\* clear() was the first call on a repository whose input holds entities,
\* and the count() after it returned 0 without reading the input
C23_Witness ==
    /\ variant = "Repository"
    /\ fault = "none"
    /\ get_entities_from_input(files, fault).entities # <<>>
    /\ clears = 1
    /\ repoCalls = 2
    /\ lastOp = "count"
    /\ repoRet = Ret("int", <<>>, 0)
    /\ checks = 0
    /\ reads = <<>>

\* save and delete raise NotImplementedError and change nothing
WriteStep ==
    (variant = "Repository" /\ repoCalls' = repoCalls + 1 /\ lastOp' \in {"save", "delete"}) =>
        /\ repoExc' = NotImplemented
        /\ pc' = "failed"
        /\ entities' = entities
        /\ loaded' = loaded
        /\ checks' = checks
        /\ reads' = reads

\* entities enter the list only in a call of get_entities_from_input that
\* returns
OnlyLoadPopulates ==
    (entities' # entities /\ entities' # <<>>) =>
        /\ LoadStep
        /\ repoExc' = NoErr
        /\ entities' = get_entities_from_input(files, fault).entities

\* C24: the repository is read-only: save and delete raise
\* NotImplementedError in every state and leave _entities and _loaded as
\* they were; entities enter the list only through get_entities_from_input.
C24_ReadOnly ==
    /\ [][WriteStep]_vars
    /\ [][OnlyLoadPopulates]_vars

\* save was the third call, on a loaded repository that holds entities
C24_Witness ==
    /\ variant = "Repository"
    /\ lastOp = "save"
    /\ repoCalls = 3
    /\ repoExc = NotImplemented
    /\ loaded
    /\ entities # <<>>
    /\ checks = 1

\* the item is an object whose "user_id" and "age" the DTO accepts
FitsDto(item) ==
    /\ item.t = "dict"
    /\ item.has_user_id
    /\ item.has_age
    /\ PydanticInt(item.user_id).ok
    /\ PydanticInt(item.age).ok

\* the entity the mapper accepts the item as
MapsToEntity(item) == item.user_id.v >= 0 /\ item.age.v \in 0..MaxAge

\* the first input file can be read and holds text
FirstReadable ==
    /\ fault = "none"
    /\ files # <<>>
    /\ files[1].kind = "file"
    /\ ~IsBlank(files[1].text)

\* the first input file holds a JSON array
FirstIsArray ==
    /\ FirstReadable
    /\ files[1].text.kind = "json"
    /\ files[1].text.doc.t = "list"

FirstItems == files[1].text.doc.items

\* what a call of get_entities_from_input does, by the input
LoadClassified ==
    LoadStep =>
        /\ reads' \in {reads, Append(reads, 1)}
        /\ NoFiles =>
            /\ repoExc'.kind = "ValidationError"
            /\ repoExc'.text = "No input files provided"
            /\ reads' = reads
        /\ FirstReadable => reads' = Append(reads, 1)
        /\ (FirstReadable /\ files[1].text.kind = "malformed") =>
            repoExc'.kind = "ParsingError"
        /\ (FirstReadable /\ files[1].text.kind = "json" /\ files[1].text.doc.t # "list") =>
            repoExc'.kind = "ParsingError"
        /\ (FirstIsArray /\ \E i \in DOMAIN FirstItems : ~FitsDto(FirstItems[i])) =>
            repoExc'.kind = "ValidationError"
        /\ (FirstIsArray /\ \A i \in DOMAIN FirstItems :
                                FitsDto(FirstItems[i]) /\ MapsToEntity(FirstItems[i])) =>
            /\ repoExc' = NoErr
            /\ loaded'
            /\ entities' = [i \in DOMAIN FirstItems |->
                                [user_id |-> FirstItems[i].user_id.v,
                                 age |-> FirstItems[i].age.v]]

\* C25: get_entities_from_input reads the first input file only.  Without
\* input files it raises ValidationError; text that is not JSON and JSON
\* that is not an array raise ParsingError; an array with an item the DTO
\* does not accept raises ValidationError; when it succeeds, _entities is
\* the list of the entities mapped from that file, in order, whatever it
\* held before.
C25_LoadClassifies == [][LoadClassified]_vars

\* two input files, the entities of the first were loaded by a read access
\* and loaded again by an explicit call: the list holds them once
C25_Witness ==
    /\ variant = "Repository"
    /\ Len(files) = 2
    /\ files[1] # files[2]
    /\ lastOp = "get_entities_from_input"
    /\ checks = 2
    /\ reads = <<1, 1>>
    /\ loaded
    /\ entities = <<[user_id |-> 1, age |-> 2], [user_id |-> 1, age |-> 0]>>

(***************************************************************************)
(* Properties of UserAgeMapper.map_to_entities (SpecMap).                   *)
(***************************************************************************)
\* the request has a non-negative integer user_id and an integer age in
\* [0,150]
ValidRequest(r) ==
    /\ r.has_user_id
    /\ r.has_age
    /\ r.user_id.t = "int"
    /\ r.user_id.v >= 0
    /\ r.age.t = "int"
    /\ r.age.v \in 0..MaxAge

\* C26: map_to_entities is all-or-nothing and keeps the order: when every
\* request has a non-negative integer user_id and an integer age in [0,150]
\* it returns one UserAge per request in the same order (none for the empty
\* list); when a request has a missing or None field, a value that is not an
\* integer or is negative, or an age above 150, it raises ValidationError
\* and returns nothing; None and an argument that is no list raise
\* ValidationError.
C26_MapAllOrNothing ==
    mapPc = "done" =>
        /\ mapArg.t # "list" => mapRes.err.kind = "ValidationError"
        /\ (mapArg.t = "list" /\ \A i \in DOMAIN mapArg.items : ValidRequest(mapArg.items[i])) =>
            /\ mapRes.err = NoErr
            /\ mapRes.entities = [i \in DOMAIN mapArg.items |->
                                     [user_id |-> mapArg.items[i].user_id.v,
                                      age |-> mapArg.items[i].age.v]]
        /\ (mapArg.t = "list" /\ \E i \in DOMAIN mapArg.items : ~ValidRequest(mapArg.items[i])) =>
            /\ mapRes.err.kind = "ValidationError"
            /\ mapRes.entities = <<>>

(***************************************************************************)
(* Properties of Request.batch_iter (Spec, variant "Request").              *)
(***************************************************************************)
\* the concatenation of the batches
RECURSIVE Flatten(_)
Flatten(bs) == IF bs = <<>> THEN <<>> ELSE Head(bs) \o Flatten(Tail(bs))

\* the contents of the first k input files, in host order
Contents(k) == [i \in 1..k |-> files[i].text]

\* C27: batch_iter(n) with n > 0 reads the input files in host order, each
\* once, and yields batches whose concatenation is the contents read; every
\* batch has n items except possibly the last, and none is empty; when the
\* generator is exhausted every file has been read (no batch for zero
\* files).  With n <= 0 it raises ValidationError and reads no file.
C27_BatchesPartitionFiles ==
    variant = "Request" =>
        /\ reads = [i \in 1..Len(reads) |-> i]
        /\ batch_size <= 0 =>
            /\ pc \in {"start", "raised"}
            /\ pc = "raised" => hostExc.kind = "ValidationError"
            /\ reads = <<>>
            /\ batches = <<>>
        /\ batch_size > 0 =>
            /\ \A k \in DOMAIN batches : Len(batches[k]) \in 1..batch_size
            /\ \A k \in 1..(Len(batches) - 1) : Len(batches[k]) = batch_size
            /\ pc = "yielded" => Flatten(batches) = Contents(Len(reads))
            /\ pc = "done" =>
                /\ Len(reads) = Len(files)
                /\ Flatten(batches) = Contents(Len(files))
                /\ files = <<>> => batches = <<>>

\* three readable files in batches of two: a full batch, then the last one
\* with the file that remains, then the generator ended
C27_Witness ==
    /\ variant = "Request"
    /\ batch_size = 2
    /\ Len(files) = 3
    /\ files[1] # files[2]
    /\ pc = "done"
    /\ Len(batches) = 2
    /\ Len(batches[1]) = 2
    /\ Len(batches[2]) = 1
    /\ reads = <<1, 2, 3>>

(***************************************************************************)
(* Properties of FileReader.read_text (Spec).                               *)
(***************************************************************************)
\* the run stopped at a file that exists and is empty or blank
StoppedAtBlank ==
    /\ reads # <<>>
    /\ files[reads[Len(reads)]].kind = "file"
    /\ IsBlank(files[reads[Len(reads)]].text)

\* C28: read_text raises ValidationError, not wrapped, for a file that
\* exists and is empty or holds only whitespace, FileOperationError for a
\* path that does not exist or is no regular file and for any other failure
\* while reading; a run that reaches an empty input file reports a
\* validation error.
C28_EmptyFileIsValidationError ==
    /\ (variant = "Reader" /\ pc # "start") =>
        /\ (files[1].kind = "file" /\ IsBlank(files[1].text)) =>
            /\ pc = "failed"
            /\ hostExc.kind = "ValidationError"
            /\ hostExc.text = "File is empty:"
        /\ files[1].kind \in {"missing", "directory", "unreadable"} =>
            /\ pc = "failed"
            /\ hostExc.kind = "FileOperationError"
        /\ (files[1].kind = "file" /\ ~IsBlank(files[1].text)) =>
            /\ pc = "read"
            /\ hostExc = NoErr
    /\ (variant \in Algorithms \cup {"Action"} /\ HasRun /\ StoppedAtBlank) =>
        /\ envelope.status = "error"
        /\ envelope.message.context = "Validation failed"
        /\ envelope.message.err.kind = "ValidationError"
        /\ envelope.message.err.text = "File is empty:"

\* a run of AgeAverageAlgorithm read a valid file and then a blank one
C28_Witness ==
    /\ variant = "AgeAverageAlgorithm"
    /\ HasRun
    /\ reads = <<1, 2>>
    /\ StoppedAtBlank
    /\ envelope.message.context = "Validation failed"

(***************************************************************************)
(* The loop over the input files (Spec).                                   *)
(***************************************************************************)
\* reading file i or extracting its ages raises
FileFails(i) ==
    IF ~read_text(files[i], FileName(i)).ok THEN TRUE
    ELSE ~InputParser_extract_ages(read_text(files[i], FileName(i)).text, FileName(i)).ok

\* the index of the first file that fails, 0 when none does
FirstFailing ==
    IF \A i \in 1..Len(files) : ~FileFails(i) THEN 0
    ELSE CHOOSE i \in 1..Len(files) : FileFails(i) /\ \A j \in 1..(i - 1) : ~FileFails(j)

\* a run or execute has gone through the loop over the input files
LoopEntered ==
    /\ variant \in Algorithms \cup {"Action"}
    /\ HasRun
    /\ fault # "inputs"
    /\ validation_error.kind = "none"

\* C29: the files are read in the order the host gives them, each once; the
\* loop stops at the first file whose read or extraction fails: no later
\* file is read, the calculator is not called, and the envelope is an error
\* with zero statistics, whatever the other files hold.
C29_StopsAtFirstFailingFile ==
    LoopEntered =>
        /\ reads = [i \in 1..Len(reads) |-> i]
        /\ FirstFailing = 0 => Len(reads) = Len(files)
        /\ FirstFailing # 0 =>
            /\ Len(reads) = FirstFailing
            /\ calcCalls = <<>>
            /\ envelope.status = "error"
            /\ envelope.min_age = 0
            /\ envelope.max_age = 0
            /\ envelope.avg_age = Zero

\* the first of two files failed and the second, which is valid, was not read
C29_Witness ==
    /\ LoopEntered
    /\ Len(files) = 2
    /\ FirstFailing = 1
    /\ ~FileFails(2)
    /\ reads = <<1>>
    /\ calcCalls = <<>>
    /\ envelope.status = "error"

(***************************************************************************)
(* The stored validation error of AgeAverageAlgorithm (Spec).              *)
(***************************************************************************)
\* the calls of validate_input whose try block raised
FailedValidations == {i \in 1..Len(validations) : validations[i] # "none"}

\* the last of them
LastFailed == CHOOSE i \in FailedValidations : \A j \in FailedValidations : j <= i

\* C30: once a call of validate_input has stored an error, the error stays
\* stored, also after a later call of validate_input that passes (the error
\* stored is the one of the last call that failed), and a run returns the
\* validation error envelope with zero statistics without reading a file.
C30_StoredErrorNeverCleared ==
    (variant = "AgeAverageAlgorithm" /\ FailedValidations # {}) =>
        /\ validation_error.kind = validations[LastFailed]
        /\ HasRun =>
            /\ envelope.status = "error"
            /\ envelope.message = Message("Validation error", validation_error)
            /\ envelope.min_age = 0
            /\ envelope.max_age = 0
            /\ envelope.avg_age = Zero
            /\ reads = <<>>
            /\ calcCalls = <<>>

\* validate_input failed, the custom data was corrected, validate_input
\* passed, and the run over valid files returned the validation error
C30_Witness ==
    /\ variant = "AgeAverageAlgorithm"
    /\ validations = <<"ValidationError", "none">>
    /\ customData = "age"
    /\ HasRun
    /\ AllExtract
    /\ files # <<>>
    /\ envelope.message.context = "Validation error"
    /\ envelope.message.err.text = "Missing required parameter: age"

====
